---- MODULE Spec2Model ----
(***************************************************************************)
(* A model of the vectorised memory/string kernels of aocl-libmem.         *)
(*                                                                         *)
(* Every kernel is a pure function of its arguments and of the bytes of    *)
(* memory it is given, so a behaviour is one call: Init draws the          *)
(* arguments and the memory image from bounded sets, and the action of a   *)
(* kernel runs the whole call and records the memory it leaves and the     *)
(* value it returns.                                                       *)
(*                                                                         *)
(* Memory is a sequence of bytes; the byte at address a is element a + 1.  *)
(* A vector register is the sequence of its lanes, lane 0 first.  A mask   *)
(* register is the set of its set bit positions: TLC's integers are 32     *)
(* bits wide and cannot hold a 64 bit mask.                                *)
(***************************************************************************)
EXTENDS Integers, Sequences, FiniteSets, TLC

VARIABLES
    call,   \* the arguments of the call: a record, field fn names the kernel
    mem,    \* the memory image the call works on
    ret,    \* the value the call returned
    pc      \* "ready" before the call, "done" after it

vars == <<call, mem, ret, pc>>

(***************************************************************************)
(* Program constants.                                                      *)
(***************************************************************************)
PAGE_SZ == 4096
ZMM_SZ == 64
YMM_SZ == 32
BOUNDARY_BYTES == 8

(***************************************************************************)
(* Bounds of the model.                                                    *)
(***************************************************************************)
\* the copy kernels are run on every size in 0..MaxCopy ...
MaxCopy == 530
\* ... and on MaxLarge + 1 sizes above 16 vectors, 37 bytes apart
MaxLarge == 24
\* the string kernels are run on every string length in 0..MaxStr
MaxStr == 40
\* the bounded string kernels are run on every string length in 0..MaxStrN
MaxStrN == 20
\* memcmp is run on every size in 0..MaxCmp ...
MaxCmp == 140
\* ... and on MaxCmpLarge sizes above it, 13 bytes apart
MaxCmpLarge == 52

(***************************************************************************)
(* Memory and vector primitives.                                           *)
(***************************************************************************)
Min(a, b) == IF a <= b THEN a ELSE b
Max(a, b) == IF a >= b THEN a ELSE b

\* _mm512_loadu_si512 / _mm256_loadu_si256 / masked loads: w bytes at address a
Load(m, a, w) == SubSeq(m, a + 1, a + w)

\* _mm512_storeu_si512 / masked stores: the lanes of v to address a
Store(m, a, v) == SubSeq(m, 1, a) \o v \o SubSeq(m, a + Len(v) + 1, Len(m))

\* _tzcnt_u64 / _tzcnt_u32 of a mask of width w: the lowest set position, w if none
Tzcnt(mask, w) == IF mask = {} THEN w ELSE CHOOSE j \in mask : \A k \in mask : j <= k

(***************************************************************************)
(* Load/store helpers of the copy kernels (base_impls/load_store_impls.h). *)
(* Every helper loads all its vectors before it stores any of them.        *)
(***************************************************************************)
LoadAll(m, s, offs, w) == [i \in 1..Len(offs) |-> Load(m, s + offs[i], w)]

RECURSIVE StoreAll(_, _, _, _)
StoreAll(m, d, offs, vs) ==
    IF offs = <<>> THEN m
    ELSE StoreAll(Store(m, d + Head(offs), Head(vs)), d, Tail(offs), Tail(vs))

\* the vectors at the offsets offs, copied from s to d
load_store_vecs(m, d, s, offs) == StoreAll(m, d, offs, LoadAll(m, s, offs, ZMM_SZ))

\* __load_store_ble_zmm_vec: a masked load and store of size <= 64 bytes
load_store_ble_zmm_vec(m, d, s, size) == Store(m, d, Load(m, s, size))

\* __load_store_le_2zmm_vec: the first and the last vector of [0, size)
load_store_le_2zmm_vec(m, d, s, size) ==
    load_store_vecs(m, d, s, <<0, size - ZMM_SZ>>)

\* __load_store_le_4zmm_vec: the first two and the last two vectors of [0, size)
load_store_le_4zmm_vec(m, d, s, size) ==
    load_store_vecs(m, d, s, <<0, ZMM_SZ, size - 2 * ZMM_SZ, size - ZMM_SZ>>)

\* __load_store_le_8zmm_vec: the first four and the last four vectors of [0, size)
load_store_le_8zmm_vec(m, d, s, size) ==
    load_store_vecs(m, d, s, <<0, ZMM_SZ, 2 * ZMM_SZ, 3 * ZMM_SZ,
                               size - 4 * ZMM_SZ, size - 3 * ZMM_SZ,
                               size - 2 * ZMM_SZ, size - ZMM_SZ>>)

\* __load_store_zmm_vec .. __load_store_8zmm_vec: n whole vectors from offset
load_store_nzmm_vec(m, d, s, offset, n) ==
    load_store_vecs(m, d, s, [i \in 1..n |-> offset + (i - 1) * ZMM_SZ])

\* count consecutive loop bodies of n vectors, the first at offset first and
\* each next one step further (step = n * ZMM_SZ forward, -n * ZMM_SZ backward)
RECURSIVE vec_loop_steps(_, _, _, _, _, _, _)
vec_loop_steps(m, d, s, first, step, count, n) ==
    IF count <= 0 THEN m
    ELSE IF count = 1 THEN load_store_nzmm_vec(m, d, s, first, n)
    ELSE LET h == count \div 2
             m1 == vec_loop_steps(m, d, s, first, step, h, n)
         IN \* the first h bodies are complete before the next one starts
            IF Len(m1) = Len(m)
            THEN vec_loop_steps(m1, d, s, first + h * step, step, count - h, n)
            ELSE m1

\* the trip count of: while (from < to) from += step
TripCount(from, to, step) == IF from < to THEN (to - from + step - 1) \div step ELSE 0

\* The forward loops (__aligned_load_and_store_4zmm_vec_loop, its _pftch,
\* unaligned-load and non-temporal-store variants, and the 8zmm ones):
\* while (offset < size) copy n vectors at offset; the offset reached is returned.
load_and_store_vec_loop(m, d, s, size, offset, n) ==
    LET count == TripCount(offset, size, n * ZMM_SZ)
    IN [mem |-> vec_loop_steps(m, d, s, offset, n * ZMM_SZ, count, n),
        offset |-> offset + count * n * ZMM_SZ]

\* The backward loops (__aligned_load_and_store_4zmm_vec_loop_bkwd, its
\* unaligned and _pftch variants): while (size > ring_fence) copy the four
\* vectors below size; the size left is returned.
load_and_store_vec_loop_bkwd(m, d, s, size, ring_fence) ==
    LET count == TripCount(ring_fence, size, 4 * ZMM_SZ)
    IN [mem |-> vec_loop_steps(m, d, s, size - 4 * ZMM_SZ, 0 - 4 * ZMM_SZ, count, 4),
        size |-> size - count * 4 * ZMM_SZ]

\* a tail count that forgets the partial vector
rem_vecs_whole(rem_data) == (rem_data \div ZMM_SZ) % 16

\* uint16_t rem_data; uint8_t rem_vecs = ((rem_data & 0x3C0) >> 6) + !!(rem_data & 0x3F)
rem_vecs_of(rem_data) ==
    ((rem_data \div ZMM_SZ) % 16) + (IF rem_data % ZMM_SZ # 0 THEN 1 ELSE 0)

(***************************************************************************)
(* _memcpy_avx512, and its MEMMOVE_AVX512 build (MOVE = TRUE).             *)
(* cfg holds zen_info.zen_cache_info.l2_per_core and __nt_start_threshold. *)
(***************************************************************************)
\* lines 79-120: overlapping blocks of the MEMMOVE build
memmove_avx512_overlap(m, dst, src, size) ==
    LET aligned == (dst % ZMM_SZ = 0) /\ (src % ZMM_SZ = 0) IN
    IF src < dst
    THEN \* backward copy: the first four vectors are kept in z4..z7
         LET z == LoadAll(m, src, <<3 * ZMM_SZ, 2 * ZMM_SZ, ZMM_SZ, 0>>, ZMM_SZ)
             m1 == IF aligned
                   THEN LET z8 == Load(m, src + size - ZMM_SZ, ZMM_SZ)
                            l == load_and_store_vec_loop_bkwd(
                                     m, dst, src, size - (size % ZMM_SZ), 3 * ZMM_SZ)
                        IN Store(l.mem, dst + size - ZMM_SZ, z8)
                   ELSE load_and_store_vec_loop_bkwd(m, dst, src, size, 4 * ZMM_SZ).mem
         IN StoreAll(m1, dst, <<3 * ZMM_SZ, 2 * ZMM_SZ, ZMM_SZ, 0>>, z)
    ELSE \* forward copy: the last four vectors are kept in z4..z7
         LET offs == <<size - 4 * ZMM_SZ, size - 3 * ZMM_SZ,
                       size - 2 * ZMM_SZ, size - ZMM_SZ>>
             z == LoadAll(m, src, offs, ZMM_SZ)
             m1 == load_and_store_vec_loop(m, dst, src, size - 4 * ZMM_SZ, 0, 4).mem
         IN StoreAll(m1, dst, offs, z)

\* lines 123-174: more than 8 vectors, blocks that do not overlap
memcpy_avx512_large(m, dst, src, size, cfg) ==
    LET m0 == load_store_le_8zmm_vec(m, dst, src, 8 * ZMM_SZ)
        dst_align == dst % ZMM_SZ
        l == IF size > 16 * ZMM_SZ
             THEN IF src % ZMM_SZ = dst_align
                  THEN IF size < cfg.l2_per_core
                       THEN load_and_store_vec_loop(m0, dst, src, size - 8 * ZMM_SZ,
                                                    8 * ZMM_SZ - dst_align, 4)
                       ELSE IF size < cfg.nt_start_threshold
                       THEN load_and_store_vec_loop(m0, dst, src, size - 8 * ZMM_SZ,
                                                    8 * ZMM_SZ - dst_align, 4)
                       ELSE load_and_store_vec_loop(m0, dst, src, size - 8 * ZMM_SZ,
                                                    8 * ZMM_SZ - dst_align, 8)
                  ELSE IF size < cfg.nt_start_threshold
                       THEN load_and_store_vec_loop(m0, dst, src, size - 8 * ZMM_SZ,
                                                    8 * ZMM_SZ - dst_align, 4)
                       ELSE load_and_store_vec_loop(m0, dst, src, size - 8 * ZMM_SZ,
                                                    8 * ZMM_SZ - dst_align, 4)
             ELSE [mem |-> m0, offset |-> 8 * ZMM_SZ]
        rem_data == (size - l.offset) % 65536
        rem_vecs == rem_vecs_of(rem_data)
    IN IF rem_vecs > 4
       THEN load_store_le_8zmm_vec(l.mem, dst + size - 8 * ZMM_SZ,
                                   src + size - 8 * ZMM_SZ, 8 * ZMM_SZ)
       ELSE IF rem_vecs > 2
       THEN load_store_le_4zmm_vec(l.mem, dst + size - 4 * ZMM_SZ,
                                   src + size - 4 * ZMM_SZ, 4 * ZMM_SZ)
       ELSE IF rem_vecs = 2
       THEN load_store_le_2zmm_vec(l.mem, dst + size - 2 * ZMM_SZ,
                                   src + size - 2 * ZMM_SZ, 2 * ZMM_SZ)
       ELSE load_store_nzmm_vec(l.mem, dst + size - ZMM_SZ, src + size - ZMM_SZ, 0, 1)

memcpy_avx512(m, dst, src, size, MOVE, cfg) ==
    LET m1 ==
        IF size <= 2 * ZMM_SZ
        THEN IF size < ZMM_SZ
             THEN load_store_ble_zmm_vec(m, dst, src, size % 256)
             ELSE load_store_le_2zmm_vec(m, dst, src, size % 256)
        ELSE IF size <= 8 * ZMM_SZ
        THEN IF MOVE
             THEN IF size <= 4 * ZMM_SZ
                  THEN load_store_le_4zmm_vec(m, dst, src, size)
                  ELSE load_store_le_8zmm_vec(m, dst, src, size)
             ELSE LET h == load_store_le_4zmm_vec(m, dst, src, size)
                  IN IF size <= 4 * ZMM_SZ
                     THEN h
                     ELSE load_store_le_4zmm_vec(h, dst + 2 * ZMM_SZ, src + 2 * ZMM_SZ,
                                                 size - 4 * ZMM_SZ)
        ELSE IF MOVE /\ ~((dst + size < src) \/ (src + size < dst))
        THEN memmove_avx512_overlap(m, dst, src, size)
        ELSE memcpy_avx512_large(m, dst, src, size, cfg)
    IN [mem |-> m1, ret |-> dst]

(***************************************************************************)
(* _memcpy_avx512_erms, and its MEMMOVE_AVX512_ERMS build (MOVE = TRUE).   *)
(* cfg also holds l1d_per_core and l3_per_ccx.                             *)
(***************************************************************************)
\* uint8_t rem_vecs = (size >> 6) + !!(size & (ZMM_SZ - 1))
rem_vecs_erms(size) ==
    ((size \div ZMM_SZ) + (IF size % ZMM_SZ # 0 THEN 1 ELSE 0)) % 256

\* the switch (rem_vecs) of the overlap paths: at most 4 (with8: 8) vectors left
load_store_tail_erms(m, d, s, size, with8) ==
    LET rem_vecs == rem_vecs_erms(size) IN
    IF with8 /\ rem_vecs \in 5..8 THEN load_store_le_8zmm_vec(m, d, s, size)
    ELSE IF rem_vecs \in 3..4 THEN load_store_le_4zmm_vec(m, d, s, size)
    ELSE IF rem_vecs = 2 THEN load_store_le_2zmm_vec(m, d, s, size)
    ELSE IF rem_vecs = 1 THEN load_store_ble_zmm_vec(m, d, s, size % 256)
    ELSE m

\* an overlap path that copies forward whatever the order of the blocks
memmove_forward_only(m, dst, src, size) ==
    LET l == load_and_store_vec_loop(m, dst, src, size - 4 * ZMM_SZ, 0, 4)
    IN load_store_le_4zmm_vec(l.mem, dst + size - 4 * ZMM_SZ, src + size - 4 * ZMM_SZ,
                              4 * ZMM_SZ)

\* lines 206-328: overlapping blocks of the MEMMOVE build
memmove_avx512_erms_overlap(m, dst, src, size) ==
    IF src < dst
    THEN \* backward copy
         LET off == (dst + size) % ZMM_SZ
             z8 == Load(m, src + size - ZMM_SZ, ZMM_SZ)
             l == load_and_store_vec_loop_bkwd(m, dst, src, size - off, 4 * ZMM_SZ)
             m1 == load_store_tail_erms(l.mem, dst, src, l.size, FALSE)
         IN Store(m1, dst + size - ZMM_SZ, z8)
    ELSE \* forward copy
         LET offset == ZMM_SZ - (dst % ZMM_SZ)
             z8 == Load(m, src, ZMM_SZ)
             l == IF size <= 26 * 1024
                  THEN load_and_store_vec_loop(m, dst, src, size - 4 * ZMM_SZ, offset, 4)
                  ELSE load_and_store_vec_loop(m, dst, src, size - 8 * ZMM_SZ, offset, 8)
             rem_data == (size - l.offset) % 65536
             m1 == load_store_tail_erms(l.mem, dst + l.offset, src + l.offset,
                                        rem_data, size > 26 * 1024)
         IN Store(m1, dst, z8)

\* lines 331-388: more than 8 vectors, blocks that do not overlap
memcpy_avx512_erms_large(m, dst, src, size, cfg) ==
    IF size < (cfg.l1d_per_core \div 2) + 2 * 1024
    THEN LET m0 == load_store_nzmm_vec(m, dst, src, 0, 4)
             l == load_and_store_vec_loop(m0, dst, src, size - 4 * ZMM_SZ,
                                          4 * ZMM_SZ - (dst % ZMM_SZ), 4)
             rem_data == (size - l.offset) % 65536
             rem_vecs == ((rem_data \div ZMM_SZ)
                          + (IF rem_data % ZMM_SZ # 0 THEN 1 ELSE 0)) % 256
         IN IF rem_vecs \in 1..4
            THEN load_store_nzmm_vec(l.mem, dst, src, size - rem_vecs * ZMM_SZ, rem_vecs)
            ELSE l.mem
    ELSE IF size < cfg.l3_per_ccx
    THEN \* __erms_movsb: rep movsb, size bytes in ascending order
         Store(m, dst, Load(m, src, size))
    ELSE LET m0 == load_store_nzmm_vec(m, dst, src, 0, 8)
             l == load_and_store_vec_loop(m0, dst, src, size - 8 * ZMM_SZ,
                                          8 * ZMM_SZ - (dst % ZMM_SZ), 8)
         IN load_store_le_8zmm_vec(l.mem, dst + size - 8 * ZMM_SZ,
                                   src + size - 8 * ZMM_SZ, 8 * ZMM_SZ)

memcpy_avx512_erms(m, dst, src, size, MOVE, cfg) ==
    LET m1 ==
        IF size <= 2 * ZMM_SZ
        THEN IF size <= ZMM_SZ
             THEN load_store_ble_zmm_vec(m, dst, src, size % 256)
             ELSE load_store_le_2zmm_vec(m, dst, src, size % 256)
        ELSE IF size <= 8 * ZMM_SZ
        THEN IF size <= 4 * ZMM_SZ
             THEN load_store_le_4zmm_vec(m, dst, src, size)
             ELSE load_store_le_8zmm_vec(m, dst, src, size)
        ELSE IF MOVE /\ ~((dst + size < src) \/ (src + size < dst))
        THEN memmove_avx512_erms_overlap(m, dst, src, size)
        ELSE memcpy_avx512_erms_large(m, dst, src, size, cfg)
    IN [mem |-> m1, ret |-> dst]

(***************************************************************************)
(* The calls of the copy kernels.                                          *)
(***************************************************************************)
\* a size on the erms forward path of more than 26 KB
HugeSize == 26 * 1024 + 77

CopySizes == (0..MaxCopy) \cup {16 * ZMM_SZ + 37 * k : k \in 0..MaxLarge}

\* <<source alignment, destination alignment>>
AlignPairs == {<<0, 0>>, <<5, 19>>, <<19, 5>>, <<63, 1>>, <<7, 7>>}

\* threshold configurations: each selects one bulk loop of the large path
CopyCfgs ==
    {[l2_per_core |-> l2, nt_start_threshold |-> nt, l1d_per_core |-> l1, l3_per_ccx |-> l3] :
        l2 \in {0}, nt \in {0}, l1 \in {0}, l3 \in {0}}
    \cup {[l2_per_core |-> 0, nt_start_threshold |-> 1048576,
           l1d_per_core |-> 0, l3_per_ccx |-> 1048576],
          [l2_per_core |-> 1048576, nt_start_threshold |-> 1048576,
           l1d_per_core |-> 32768, l3_per_ccx |-> 1048576]}

DefaultCfg == [l2_per_core |-> 1048576, nt_start_threshold |-> 1048576,
               l1d_per_core |-> 32768, l3_per_ccx |-> 1048576]

\* the thresholds are read only above 8 vectors
CfgsFor(n) == IF n > 8 * ZMM_SZ THEN CopyCfgs ELSE {DefaultCfg}

RoundUp(x, a) == ((x + a - 1) \div a) * a

\* the byte pattern of the source data: no two bytes less than 251 apart agree
PatLen == 3 * HugeSize + 1024
PatSeq == <<>> \o [i \in 1..PatLen |-> (7 * i + 3) % 251]
\* every destination and guard byte holds 255, a value no source byte has
GuardSeq == <<>> \o [i \in 1..PatLen |-> 255]

\* memcpy: destination (with guard bytes around it) below, source above it
MemcpyCall(n, a, c) ==
    [fn |-> "memcpy", size |-> n, dst |-> 2 * ZMM_SZ + a[2],
     src |-> RoundUp(2 * ZMM_SZ + a[2] + n + BOUNDARY_BYTES, ZMM_SZ) + ZMM_SZ + a[1],
     cfg |-> c]

\* memmove: source and destination in one buffer.
\* <<source alignment, dst - src>>: apart, adjacent and overlapping both ways
MoveCases(n) == {<<0, 0 - (n + 1)>>, <<5, 0 - n>>, <<0, -64>>, <<5, -7>>,
                 <<5, 7>>, <<0, 64>>, <<0, n>>, <<5, n + 1>>}

MoveSizes == CopySizes \cup {HugeSize}

MemmoveCall(f, n, a, c) ==
    [fn |-> f, size |-> n, src |-> RoundUp(n + 4 * ZMM_SZ, ZMM_SZ) + a[1],
     dst |-> RoundUp(n + 4 * ZMM_SZ, ZMM_SZ) + a[1] + a[2], cfg |-> c]

\* the memory image a call starts from
CopyMem(c) ==
    IF c.fn = "memcpy"
    THEN SubSeq(GuardSeq, 1, c.src) \o SubSeq(PatSeq, 1, c.size)
         \o SubSeq(GuardSeq, 1, 2 * ZMM_SZ)
    ELSE SubSeq(PatSeq, 1, Max(c.src, c.dst) + c.size + 2 * ZMM_SZ)

InitCopy ==
    /\ \E n \in CopySizes : \E a \in AlignPairs, c \in CfgsFor(n) :
           call = MemcpyCall(n, a, c)
    /\ mem = CopyMem(call)
    /\ ret = -1
    /\ pc = "ready"

InitMove ==
    /\ \E n \in MoveSizes : \E f \in {"memmove", "memmove_erms"}, a \in MoveCases(n),
                               c \in CfgsFor(n) :
           call = MemmoveCall(f, n, a, c)
    /\ mem = CopyMem(call)
    /\ ret = -1
    /\ pc = "ready"

Call_memcpy ==
    /\ pc = "ready"
    /\ call.fn = "memcpy"
    /\ LET r == memcpy_avx512(mem, call.dst, call.src, call.size, FALSE, call.cfg)
       IN mem' = r.mem /\ ret' = r.ret
    /\ pc' = "done"
    /\ UNCHANGED call

Call_memmove ==
    /\ pc = "ready"
    /\ call.fn = "memmove"
    /\ LET r == memcpy_avx512(mem, call.dst, call.src, call.size, TRUE, call.cfg)
       IN mem' = r.mem /\ ret' = r.ret
    /\ pc' = "done"
    /\ UNCHANGED call

Call_memmove_erms ==
    /\ pc = "ready"
    /\ call.fn = "memmove_erms"
    /\ LET r == memcpy_avx512_erms(mem, call.dst, call.src, call.size, TRUE, call.cfg)
       IN mem' = r.mem /\ ret' = r.ret
    /\ pc' = "done"
    /\ UNCHANGED call

NextCopy == Call_memcpy

NextMove == Call_memmove \/ Call_memmove_erms

SpecCopy == InitCopy /\ [][NextCopy]_vars

SpecMove == InitMove /\ [][NextMove]_vars

\* what a copy through a scratch buffer leaves in memory
CopyExpected(c) == Store(CopyMem(c), c.dst, Load(CopyMem(c), c.src, c.size))

\* C1: after memcpy of non-overlapping regions, dst[0..n) holds the source bytes,
\* every other byte of memory (the guard bytes around dst among them) keeps its
\* value, and the call returns dst.
C1_MemcpyCopies ==
    (pc = "done" /\ call.fn = "memcpy") =>
        /\ ret = call.dst
        /\ Load(mem, call.dst, call.size) = SubSeq(PatSeq, 1, call.size)
        /\ mem = CopyExpected(call)

C1_Witness ==
    /\ pc = "done" /\ call.fn = "memcpy"
    /\ call.size = 130 /\ call.src % ZMM_SZ = 5 /\ call.dst % ZMM_SZ = 19
    /\ Load(mem, call.dst, 130) = SubSeq(PatSeq, 1, 130)
    /\ Load(mem, call.dst - BOUNDARY_BYTES, BOUNDARY_BYTES)
           = SubSeq(GuardSeq, 1, BOUNDARY_BYTES)
    /\ Load(mem, call.dst + 130, BOUNDARY_BYTES) = SubSeq(GuardSeq, 1, BOUNDARY_BYTES)

\* C2: memmove leaves memory as a copy through a scratch buffer does, whether
\* the regions overlap forward, backward or not at all, and returns dst.
C2_MemmoveCopies ==
    (pc = "done" /\ call.fn \in {"memmove", "memmove_erms"}) =>
        /\ ret = call.dst
        /\ mem = CopyExpected(call)

C2_Witness ==
    /\ pc = "done" /\ call.fn = "memmove_erms"
    /\ call.size > 8 * ZMM_SZ
    /\ call.src < call.dst /\ call.dst < call.src + call.size
    /\ ret = call.dst
    /\ Load(mem, call.dst, call.size) = Load(CopyMem(call), call.src, call.size)
    /\ Load(mem, call.dst, call.size) # Load(CopyMem(call), call.dst, call.size)

(***************************************************************************)
(* memcmp: _memcmp_avx512 and __memcmp_zen4.                               *)
(***************************************************************************)
\* _mm512_cmpneq_epu8_mask: the lanes where the vectors differ
NeqMask(v1, v2) == {j \in 0..(Len(v1) - 1) : v1[j + 1] # v2[j + 1]}

\* _mm256_movemask_epi8(_mm256_cmpeq_epi8(v1, v2)): the lanes where they agree
EqMask(v1, v2) == {j \in 0..(Len(v1) - 1) : v1[j + 1] = v2[j + 1]}

\* _tzcnt_u32(mask + 1) of a 32 bit mask: the lowest clear position, 32 if none
TzcntInc(mask, w) == Tzcnt((0..(w - 1)) \ mask, w)

\* _mm512_mask_loadu_epi8(fill, _bzhi_u64(-1, k), a): k bytes, the other lanes of fill
MaskLoadu(fill, k, m, a) == Load(m, a, Min(k, Len(fill))) \o SubSeq(fill, k + 1, Len(fill))

Zero512 == <<>> \o [i \in 1..ZMM_SZ |-> 0]

\* a byte read as a signed char
SignedByte(b) == IF b >= 128 THEN b - 256 ELSE b

\* the difference of the two bytes read as signed chars
ByteDiffSigned(m, mem1, mem2, index) ==
    SignedByte(m[mem1 + index + 1]) - SignedByte(m[mem2 + index + 1])

\* (*(uint8_t*)(mem1 + index)) - (*(uint8_t*)(mem2 + index))
ByteDiff(m, mem1, mem2, index) == m[mem1 + index + 1] - m[mem2 + index + 1]

\* The vectors of width w at the offsets offs, compared in order: the index of
\* the first differing byte of the first differing vector, -1 if all agree.
RECURSIVE cmp_vecs(_, _, _, _, _)
cmp_vecs(m, mem1, mem2, offs, w) ==
    IF offs = <<>> THEN -1
    ELSE LET mask == NeqMask(Load(m, mem2 + Head(offs), w), Load(m, mem1 + Head(offs), w))
         IN IF mask # {} THEN Tzcnt(mask, w) + Head(offs)
            ELSE cmp_vecs(m, mem1, mem2, Tail(offs), w)

\* a diff index of -1 stands for "return 0"
cmp_result(m, mem1, mem2, index) == IF index < 0 THEN 0 ELSE ByteDiff(m, mem1, mem2, index)

\* lines 39-109 (zen4: 42-112): sizes up to four vectors
memcmp_le_4zmm(m, mem1, mem2, size) ==
    IF size <= ZMM_SZ
    THEN LET z1 == MaskLoadu(Zero512, size % 256, m, mem1)
             z2 == MaskLoadu(Zero512, size % 256, m, mem2)
             mask == NeqMask(z1, z2)
         IN IF mask # {} THEN ByteDiff(m, mem1, mem2, Tzcnt(mask, ZMM_SZ)) ELSE 0
    ELSE IF size <= 2 * ZMM_SZ
    THEN cmp_result(m, mem1, mem2, cmp_vecs(m, mem1, mem2, <<0, size - ZMM_SZ>>, ZMM_SZ))
    ELSE cmp_result(m, mem1, mem2,
                    cmp_vecs(m, mem1, mem2,
                             <<0, ZMM_SZ, size - 2 * ZMM_SZ, size - ZMM_SZ>>, ZMM_SZ))

\* the switch (rem_vecs) with its fall-throughs: the last rem_vecs vectors
cmp_tail(m, mem1, mem2, size, rem_vecs, w) ==
    IF rem_vecs \in 1..4
    THEN cmp_result(m, mem1, mem2,
                    cmp_vecs(m, mem1, mem2,
                             [i \in 1..rem_vecs |-> size - (rem_vecs + 1 - i) * w], w))
    ELSE 0

\* lines 111-146: the loop over four vectors
RECURSIVE memcmp_avx512_loop(_, _, _, _, _)
memcmp_avx512_loop(m, mem1, mem2, size, offset) ==
    IF size - 4 * ZMM_SZ > offset
    THEN LET index == cmp_vecs(m, mem1, mem2,
                               <<offset, offset + ZMM_SZ, offset + 2 * ZMM_SZ,
                                 offset + 3 * ZMM_SZ>>, ZMM_SZ)
         IN IF index >= 0 THEN [found |-> TRUE, index |-> index]
            ELSE memcmp_avx512_loop(m, mem1, mem2, size, offset + 4 * ZMM_SZ)
    ELSE [found |-> FALSE, index |-> offset]

memcmp_avx512(m, mem1, mem2, size) ==
    IF size <= 4 * ZMM_SZ THEN memcmp_le_4zmm(m, mem1, mem2, size)
    ELSE LET l == memcmp_avx512_loop(m, mem1, mem2, size, 0)
             rem_data == (size - l.index) % 65536
             rem_vecs == ((rem_data \div ZMM_SZ)
                          + (IF rem_data % ZMM_SZ # 0 THEN 1 ELSE 0)) % 256
         IN IF l.found THEN ByteDiff(m, mem1, mem2, l.index)
            ELSE IF l.index = size THEN 0
            ELSE cmp_tail(m, mem1, mem2, size, rem_vecs, ZMM_SZ)

\* zen4 lines 117-132 and 133-151: a pair of ymm vectors at offset + base; the
\* index of the first differing byte, -1 if ret == -1
cmp_ymm_pair(m, mem1, mem2, offset, base) ==
    LET y0 == EqMask(Load(m, mem2 + offset + base, YMM_SZ),
                     Load(m, mem1 + offset + base, YMM_SZ))
        y1 == EqMask(Load(m, mem2 + offset + base + YMM_SZ, YMM_SZ),
                     Load(m, mem1 + offset + base + YMM_SZ, YMM_SZ))
        ret0 == y0 \cap y1
    IN IF ret0 # 0..(YMM_SZ - 1)
       THEN IF y0 # 0..(YMM_SZ - 1)
            THEN offset + TzcntInc(y0, YMM_SZ) + base
            ELSE offset + TzcntInc(ret0, YMM_SZ) + YMM_SZ + base
       ELSE -1

\* zen4 lines 114-153: the loop over four ymm vectors
RECURSIVE memcmp_zen4_loop(_, _, _, _, _)
memcmp_zen4_loop(m, mem1, mem2, size, offset) ==
    IF size - 4 * YMM_SZ > offset
    THEN LET i0 == cmp_ymm_pair(m, mem1, mem2, offset, 0)
             i1 == cmp_ymm_pair(m, mem1, mem2, offset, 2 * YMM_SZ)
         IN IF i0 >= 0 THEN [found |-> TRUE, index |-> i0]
            ELSE IF i1 >= 0 THEN [found |-> TRUE, index |-> i1]
            ELSE memcmp_zen4_loop(m, mem1, mem2, size, offset + 4 * YMM_SZ)
    ELSE [found |-> FALSE, index |-> offset]

memcmp_zen4(m, mem1, mem2, size) ==
    IF size <= 4 * ZMM_SZ THEN memcmp_le_4zmm(m, mem1, mem2, size)
    ELSE LET l == memcmp_zen4_loop(m, mem1, mem2, size, 0)
             rem_data == (size - l.index) % 65536
             rem_vecs == ((rem_data \div YMM_SZ)
                          + (IF rem_data % YMM_SZ # 0 THEN 1 ELSE 0)) % 256
         IN IF l.found THEN ByteDiff(m, mem1, mem2, l.index)
            ELSE IF l.index = size THEN 0
            ELSE cmp_tail(m, mem1, mem2, size, rem_vecs, YMM_SZ)

(***************************************************************************)
(* The calls of memcmp: two buffers that agree up to a first difference    *)
(* and differ again, the other way round, at every fifth byte after it.    *)
(***************************************************************************)
CmpSizes == (0..MaxCmp) \cup {MaxCmp + 13 * k : k \in 1..MaxCmpLarge}

\* where the first difference is put: around every vector boundary and the end
DiffAt(n) ==
    {-1} \cup ({0, 1, 31, 32, 63, 64, 65, 127, 128, 191, 192, 255, 256, 257, 300,
                383, 384, 447, 448, 511, 512, 513, 600, 640, 700,
                n - 1, n - 2, n - 32, n - 33, n - 64, n - 65, n - 128, n - 129,
                n - 192, n - 193, n - 256, n - 257} \cap (0..(n - 1)))

\* PatSeq with every fifth byte 3 higher, resp. lower (bytes under 3 left alone)
PatUp ==
    <<>> \o [i \in 1..(2 * PAGE_SZ) |-> IF i % 5 = 0 THEN PatSeq[i] + 3 ELSE PatSeq[i]]
PatDown == <<>> \o [i \in 1..(2 * PAGE_SZ) |->
               IF i % 5 = 0 /\ PatSeq[i] >= 3 THEN PatSeq[i] - 3 ELSE PatSeq[i]]

\* sign = 1: mem1 is the greater at the first difference, sign = -1: the lesser
CmpMem(n, i, sign) ==
    LET pad == SubSeq(GuardSeq, 1, BOUNDARY_BYTES)
        a == IF i < 0 THEN SubSeq(PatSeq, 1, n)
             ELSE SubSeq(PatSeq, 1, i) \o <<IF sign > 0 THEN 255 ELSE 0>>
                  \o SubSeq(PatSeq, i + 2, n)
        b == IF i < 0 THEN SubSeq(PatSeq, 1, n)
             ELSE SubSeq(PatSeq, 1, i) \o <<IF sign > 0 THEN 0 ELSE 255>>
                  \o SubSeq(IF sign > 0 THEN PatUp ELSE PatDown, i + 2, n)
    IN pad \o a \o pad \o b \o pad

MemcmpCall(f, n, i, sign) ==
    [fn |-> f, size |-> n, mem1 |-> BOUNDARY_BYTES, mem2 |-> n + 2 * BOUNDARY_BYTES,
     diff |-> i, sign |-> sign]

InitMemcmp ==
    /\ \E n \in CmpSizes : \E f \in {"memcmp_avx512", "memcmp_zen4"}, i \in DiffAt(n),
                              sign \in {-1, 1} :
           call = MemcmpCall(f, n, i, sign)
    /\ mem = CmpMem(call.size, call.diff, call.sign)
    /\ ret = 0
    /\ pc = "ready"

Call_memcmp_avx512 ==
    /\ pc = "ready"
    /\ call.fn = "memcmp_avx512"
    /\ ret' = memcmp_avx512(mem, call.mem1, call.mem2, call.size)
    /\ pc' = "done"
    /\ UNCHANGED <<call, mem>>

Call_memcmp_zen4 ==
    /\ pc = "ready"
    /\ call.fn = "memcmp_zen4"
    /\ ret' = memcmp_zen4(mem, call.mem1, call.mem2, call.size)
    /\ pc' = "done"
    /\ UNCHANGED <<call, mem>>

NextMemcmp == Call_memcmp_avx512 \/ Call_memcmp_zen4

SpecMemcmp == InitMemcmp /\ [][NextMemcmp]_vars

\* the lowest index in lo..hi at which the two buffers differ, -1 if none
RECURSIVE FirstDiff(_, _, _, _, _)
FirstDiff(m, a, b, lo, hi) ==
    IF lo > hi \/ SubSeq(m, a + lo + 1, a + hi + 1) = SubSeq(m, b + lo + 1, b + hi + 1)
    THEN -1
    ELSE IF lo = hi THEN lo
    ELSE LET mid == (lo + hi) \div 2
             l == FirstDiff(m, a, b, lo, mid)
         IN IF l >= 0 THEN l ELSE FirstDiff(m, a, b, mid + 1, hi)

\* C3: memcmp returns 0 when the first n bytes agree, and otherwise exactly
\* a[i] - b[i] (both read as unsigned bytes) at the lowest differing index i.
C3_MemcmpDiff ==
    (pc = "done" /\ call.fn \in {"memcmp_avx512", "memcmp_zen4"}) =>
        LET i == FirstDiff(mem, call.mem1, call.mem2, 0, call.size - 1)
        IN ret = IF i < 0 THEN 0
                 ELSE mem[call.mem1 + i + 1] - mem[call.mem2 + i + 1]

C3_Witness ==
    /\ pc = "done" /\ call.fn = "memcmp_zen4"
    /\ call.size > 4 * ZMM_SZ
    /\ FirstDiff(mem, call.mem1, call.mem2, 0, call.size - 1) > 4 * ZMM_SZ
    /\ FirstDiff(mem, call.mem1, call.mem2, 0, call.size - 1) < call.size - 1
    /\ ret = -255

(***************************************************************************)
(* Addresses.  The memory image starts PageBias bytes into a page, so the  *)
(* first page ends at address PAGE_SZ - PageBias of the image.             *)
(***************************************************************************)
PageBias == PAGE_SZ - 4 * ZMM_SZ

\* (PAGE_SZ - 1) & (uintptr_t)a
PageOff(a) == (a + PageBias) % PAGE_SZ

\* x | y
RECURSIVE BitOr(_, _)
BitOr(x, y) ==
    IF x = 0 THEN y
    ELSE IF y = 0 THEN x
    ELSE (IF x % 2 = 1 \/ y % 2 = 1 THEN 1 ELSE 0) + 2 * BitOr(x \div 2, y \div 2)

\* a - b in size_t: a difference below zero wraps to a value above every size
\* and offset of the model (size_t is kept 30 bits wide)
USub(a, b) == IF a >= b THEN a - b ELSE a - b + 2^30

(***************************************************************************)
(* strcmp / strncmp.  N is TRUE in the STRNCMP build.                      *)
(***************************************************************************)
\* a stop test that forgets the terminator
stop_neq_only(v1, v2) == {j \in 0..(Len(v1) - 1) : v1[j + 1] # v2[j + 1]}

\* the clear bits of _mm256_movemask_epi8(cmpeq_epi8(v1, v2) & cmpgt_epi8(v1, 0)):
\* cmpgt_epi8 compares signed bytes
stop_avx2(v1, v2) ==
    {j \in 0..(Len(v1) - 1) : ~(v1[j + 1] = v2[j + 1] /\ SignedByte(v1[j + 1]) > 0)}

\* _mm512_cmpeq_epu8_mask(z1, z0) | _mm512_cmpneq_epu8_mask(z1, z2)
stop_avx512(v1, v2) == {j \in 0..(Len(v1) - 1) : v1[j + 1] = 0 \/ v1[j + 1] # v2[j + 1]}

\* return (unsigned char)str1[cmp_idx] - (unsigned char)str2[cmp_idx];
\* under STRNCMP: if (cmp_idx >= size) return 0
str_result(m, str1, str2, cmp_idx, size, N) ==
    IF N /\ cmp_idx >= size THEN 0 ELSE ByteDiff(m, str1, str2, cmp_idx)

\* Up to k vectors of w bytes (w = YMM_SZ: the AVX2 test, w = ZMM_SZ: the
\* AVX-512 one) compared from offset on; a1 is the string tested for the
\* terminator.  hit: the index of the first stop; else the offset reached.
RECURSIVE scan_vecs(_, _, _, _, _, _)
scan_vecs(m, a1, a2, offset, k, w) ==
    IF k = 0 THEN [hit |-> FALSE, at |-> offset]
    ELSE LET v1 == Load(m, a1 + offset, w)
             v2 == Load(m, a2 + offset, w)
             stop == IF w = YMM_SZ THEN stop_avx2(v1, v2) ELSE stop_avx512(v1, v2)
         IN IF stop # {} THEN [hit |-> TRUE, at |-> Tzcnt(stop, w) + offset]
            ELSE scan_vecs(m, a1, a2, offset + w, k - 1, w)

\* _strcmp_ble_ymm: at most 32 bytes, as two overlapping chunks of 2, 4, 8 or 16
strcmp_ble_ymm(m, str1, str2, size) ==
    IF size = 1
    THEN IF m[str1 + 1] = m[str2 + 1] /\ m[str1 + 1] # 0 THEN YMM_SZ ELSE 0
    ELSE IF size > 2 * 16 THEN YMM_SZ
    ELSE LET k == IF size <= 2 * 2 THEN 2 ELSE IF size <= 2 * 4 THEN 4
                  ELSE IF size <= 2 * 8 THEN 8 ELSE 16
             ret1 == stop_avx2(Load(m, str1, k), Load(m, str2, k))
             cmp_idx == (size - k) % 256
             ret2 == stop_avx2(Load(m, str1 + cmp_idx, k), Load(m, str2 + cmp_idx, k))
         IN IF ret1 # {} THEN Tzcnt(ret1, 16)
            ELSE IF ret2 = {} THEN YMM_SZ
            ELSE (cmp_idx + Tzcnt(ret2, 16)) % 256

\* avx2 lines 309-323, avx512 lines 162-177: the loop over one aligned vector
RECURSIVE str_aligned_tail(_, _, _, _, _, _, _)
str_aligned_tail(m, str1, str2, size, N, offset, w) ==
    LET r == scan_vecs(m, str1, str2, offset, 1, w)
    IN IF r.hit THEN str_result(m, str1, str2, r.at, size, N)
       ELSE IF N /\ size <= r.at THEN 0
       ELSE str_aligned_tail(m, str1, str2, size, N, r.at, w)

\* avx2 lines 257-308, avx512 lines 117-161: the loop over four aligned vectors
RECURSIVE str_aligned_loop(_, _, _, _, _, _, _)
str_aligned_loop(m, str1, str2, size, N, offset, w) ==
    IF (~N) \/ offset < USub(size, 4 * w)
    THEN LET r == scan_vecs(m, str1, str2, offset, 4, w)
         IN IF r.hit THEN str_result(m, str1, str2, r.at, size, N)
            ELSE IF N /\ r.at >= size THEN 0
            ELSE str_aligned_loop(m, str1, str2, size, N, r.at, w)
    ELSE str_aligned_tail(m, str1, str2, size, N, offset, w)

\* avx2 lines 340-437: strings of different alignment; al is the string
\* aligned at offset, un the other one, vip is uint16_t vecs_in_page
RECURSIVE strcmp_avx2_unaligned(_, _, _, _, _, _, _, _, _)
RECURSIVE strcmp_avx2_unaligned_tail(_, _, _, _, _, _, _, _, _)

\* lines 420-436: the bytes of the unaligned string up to the end of its page
strcmp_avx2_cross(m, str1, str2, size, N, al, un, offset, vip) ==
    LET mask_offset == PageOff(un + offset) % YMM_SZ
        cmp_idx == strcmp_ble_ymm(m, al + offset, un + offset, YMM_SZ - mask_offset)
    IN IF cmp_idx # YMM_SZ THEN str_result(m, str1, str2, cmp_idx + offset, size, N)
       ELSE IF N /\ size <= offset + YMM_SZ - mask_offset THEN 0
       ELSE strcmp_avx2_unaligned(m, str1, str2, size, N, al, un, offset,
                                  (vip + (PAGE_SZ \div YMM_SZ)) % 65536)

\* lines 397-418: while (vecs_in_page--)
strcmp_avx2_unaligned_tail(m, str1, str2, size, N, al, un, offset, vip) ==
    IF vip # 0
    THEN LET r == scan_vecs(m, al, un, offset, 1, YMM_SZ)
         IN IF r.hit THEN str_result(m, str1, str2, r.at, size, N)
            ELSE IF N /\ size <= r.at THEN 0
            ELSE strcmp_avx2_unaligned_tail(m, str1, str2, size, N, al, un, r.at, vip - 1)
    ELSE strcmp_avx2_cross(m, str1, str2, size, N, al, un, offset, (vip - 1) % 65536)

\* lines 343-396: while (vecs_in_page >= 4 ...)
strcmp_avx2_unaligned(m, str1, str2, size, N, al, un, offset, vip) ==
    IF vip >= 4 /\ (N => offset < USub(size, 4 * YMM_SZ))
    THEN LET r == scan_vecs(m, al, un, offset, 4, YMM_SZ)
         IN IF r.hit THEN str_result(m, str1, str2, r.at, size, N)
            ELSE strcmp_avx2_unaligned(m, str1, str2, size, N, al, un, r.at, vip - 4)
    ELSE strcmp_avx2_unaligned_tail(m, str1, str2, size, N, al, un, offset, vip)

\* lines 152-252: the first 64 bytes (less near the end of a page)
strcmp_avx2_first(m, str1, str2, size, N, offset) ==
    IF (PAGE_SZ - 2 * YMM_SZ) < BitOr(PageOff(str1), PageOff(str2))
    THEN IF offset < YMM_SZ
         THEN LET r == scan_vecs(m, str1, str2, 0, 1, YMM_SZ)
                  cmp_idx == strcmp_ble_ymm(m, str1 + YMM_SZ, str2 + YMM_SZ, YMM_SZ - offset)
              IN IF r.hit
                 THEN [done |-> TRUE, ret |-> str_result(m, str1, str2, r.at, size, N)]
                 ELSE IF N /\ size <= YMM_SZ - offset THEN [done |-> TRUE, ret |-> 0]
                 ELSE IF cmp_idx # YMM_SZ
                 THEN [done |-> TRUE,
                       ret |-> str_result(m, str1, str2, cmp_idx + YMM_SZ, size, N)]
                 ELSE [done |-> FALSE, ret |-> 0]
         ELSE LET cmp_idx == strcmp_ble_ymm(m, str1, str2, 2 * YMM_SZ - offset)
              IN IF cmp_idx # YMM_SZ
                 THEN [done |-> TRUE, ret |-> str_result(m, str1, str2, cmp_idx, size, N)]
                 ELSE IF N /\ size <= 2 * YMM_SZ - offset THEN [done |-> TRUE, ret |-> 0]
                 ELSE [done |-> FALSE, ret |-> 0]
    ELSE LET r1 == scan_vecs(m, str1, str2, 0, 1, YMM_SZ)
             r2 == scan_vecs(m, str1, str2, YMM_SZ, 1, YMM_SZ)
         IN IF r1.hit
            THEN [done |-> TRUE, ret |-> str_result(m, str1, str2, r1.at, size, N)]
            ELSE IF N /\ size <= YMM_SZ THEN [done |-> TRUE, ret |-> 0]
            ELSE IF r2.hit
            THEN [done |-> TRUE, ret |-> str_result(m, str1, str2, r2.at, size, N)]
            ELSE IF N /\ size <= 2 * YMM_SZ THEN [done |-> TRUE, ret |-> 0]
            ELSE [done |-> FALSE, ret |-> 0]

\* _strcmp_avx2 (N = FALSE, size unused) and _strncmp_avx2 (N = TRUE)
strcmp_avx2(m, str1, str2, size, N) ==
    IF N /\ size = 0 THEN 0
    ELSE LET offset1 == PageOff(str1) % (2 * YMM_SZ)
             offset2 == PageOff(str2) % (2 * YMM_SZ)
             offmax == IF offset1 >= offset2 THEN offset1 ELSE offset2
             first == strcmp_avx2_first(m, str1, str2, size, N, offmax)
             offset == 2 * YMM_SZ - offmax
             str1_aligned == (PageOff(str1 + offset) % (2 * YMM_SZ)) = 0
             al == IF str1_aligned THEN str1 ELSE str2
             un == IF str1_aligned THEN str2 ELSE str1
             vecs_in_page == (PAGE_SZ - PageOff(un + offset)) \div YMM_SZ
         IN IF first.done THEN first.ret
            ELSE IF offset1 = offset2
            THEN str_aligned_loop(m, str1, str2, size, N, offset, YMM_SZ)
            ELSE strcmp_avx2_unaligned(m, str1, str2, size, N, al, un, offset,
                                       vecs_in_page)

\* _mm512_set1_epi8(0xff)
Ones512 == <<>> \o [i \in 1..ZMM_SZ |-> 255]

\* avx512 lines 60-69 and 260-266: both strings loaded under the mask
\* UINT64_MAX >> (ZMM_SZ - k), the other lanes 0xff, and compared
strcmp_avx512_masked(m, a1, a2, k) ==
    stop_avx512(MaskLoadu(Ones512, k, m, a1), MaskLoadu(Ones512, k, m, a2))

RECURSIVE strcmp_avx512_unaligned(_, _, _, _, _, _, _, _, _)
RECURSIVE strcmp_avx512_unaligned_tail(_, _, _, _, _, _, _, _, _)

\* avx512 lines 259-277: the bytes of the unaligned string up to the end of its page
strcmp_avx512_cross(m, str1, str2, size, N, al, un, offset, vip) ==
    LET k == ZMM_SZ - (PageOff(un + offset) % ZMM_SZ)
        stop == strcmp_avx512_masked(m, al + offset, un + offset, k)
    IN IF stop # {} THEN str_result(m, str1, str2, Tzcnt(stop, ZMM_SZ) + offset, size, N)
       ELSE IF N /\ size <= offset + k THEN 0
       ELSE strcmp_avx512_unaligned(m, str1, str2, size, N, al, un, offset,
                                    (vip + (PAGE_SZ \div ZMM_SZ)) % 65536)

\* avx512 lines 243-258: while (vecs_in_page--)
strcmp_avx512_unaligned_tail(m, str1, str2, size, N, al, un, offset, vip) ==
    IF vip # 0
    THEN LET r == scan_vecs(m, al, un, offset, 1, ZMM_SZ)
         IN IF r.hit THEN str_result(m, str1, str2, r.at, size, N)
            ELSE IF N /\ size <= r.at THEN 0
            ELSE strcmp_avx512_unaligned_tail(m, str1, str2, size, N, al, un, r.at, vip - 1)
    ELSE strcmp_avx512_cross(m, str1, str2, size, N, al, un, offset, (vip - 1) % 65536)

\* avx512 lines 198-242: while (vecs_in_page >= 4 ...)
strcmp_avx512_unaligned(m, str1, str2, size, N, al, un, offset, vip) ==
    IF vip >= 4 /\ (N => offset < USub(size, 4 * ZMM_SZ))
    THEN LET r == scan_vecs(m, al, un, offset, 4, ZMM_SZ)
         IN IF r.hit THEN str_result(m, str1, str2, r.at, size, N)
            ELSE strcmp_avx512_unaligned(m, str1, str2, size, N, al, un, r.at, vip - 4)
    ELSE IF N /\ size <= offset THEN 0
    ELSE strcmp_avx512_unaligned_tail(m, str1, str2, size, N, al, un, offset, vip)

\* _strcmp_avx512 (N = FALSE, size unused) and _strncmp_avx512 (N = TRUE)
strcmp_avx512(m, str1, str2, size, N) ==
    IF N /\ size = 0 THEN 0
    ELSE LET offset1 == PageOff(str1) % ZMM_SZ
             offset2 == PageOff(str2) % ZMM_SZ
             offmax == IF offset1 >= offset2 THEN offset1 ELSE offset2
             near == (PAGE_SZ - ZMM_SZ) < BitOr(PageOff(str1), PageOff(str2))
             stop == IF near THEN strcmp_avx512_masked(m, str1, str2, ZMM_SZ - offmax)
                    ELSE stop_avx512(Load(m, str1, ZMM_SZ), Load(m, str2, ZMM_SZ))
             offset == ZMM_SZ - offmax
             str1_aligned == (PageOff(str1 + offset) % ZMM_SZ) = 0
             al == IF str1_aligned THEN str1 ELSE str2
             un == IF str1_aligned THEN str2 ELSE str1
             vecs_in_page == (PAGE_SZ - PageOff(un + offset)) \div ZMM_SZ
         IN IF stop # {} THEN str_result(m, str1, str2, Tzcnt(stop, ZMM_SZ), size, N)
            ELSE IF N /\ size <= (IF near THEN ZMM_SZ - offmax ELSE ZMM_SZ) THEN 0
            ELSE IF offset1 = offset2
            THEN str_aligned_loop(m, str1, str2, size, N, offset, ZMM_SZ)
            ELSE strcmp_avx512_unaligned(m, str1, str2, size, N, al, un, offset,
                                         vecs_in_page)

\* test_strcmp: while (*str1 && (*str1 == *str2)) { str1++; str2++; }
RECURSIVE test_strcmp(_, _, _)
test_strcmp(m, str1, str2) ==
    IF m[str1 + 1] # 0 /\ m[str1 + 1] = m[str2 + 1]
    THEN test_strcmp(m, str1 + 1, str2 + 1)
    ELSE m[str1 + 1] - m[str2 + 1]

(***************************************************************************)
(* The calls of the string compare kernels.                                *)
(***************************************************************************)
\* string bytes: 1..127 only, and 1..254 (bytes of 128 and more among them)
StrLo == <<>> \o [i \in 1..PAGE_SZ |-> 1 + ((7 * i + 3) % 127)]
StrMixed == <<>> \o [i \in 1..PAGE_SZ |-> 1 + ((37 * i + 11) % 254)]
\* what memory holds outside the strings, NULs among it
Junk == <<>> \o [i \in 1..(3 * PAGE_SZ) |-> (11 * i + 5) % 256]

StrPat(kind) == IF kind = "lo" THEN StrLo ELSE StrMixed

\* lengths beyond MaxStr: around the vector and loop boundaries
LongLens == {47, 63, 64, 65, 96, 127, 128, 129, 160, 200, 255, 256, 300, 330}

StrLens == (0..MaxStr) \cup LongLens

\* s2 agrees with s1 on d bytes; then it ends (x = "nul") or goes on with
\* another byte (x = "other") and three more
Str1Bytes(kind, len) == SubSeq(StrPat(kind), 1, len) \o <<0>>

Str2Bytes(kind, len, d, x) ==
    LET p == StrPat(kind)
        s1d == IF d < len THEN p[d + 1] ELSE 0
    IN IF x = "nul" THEN SubSeq(p, 1, d) \o <<0>>
       ELSE SubSeq(p, 1, d) \o <<255 - s1d>> \o SubSeq(p, 9, 11) \o <<0>>

\* memory with the byte sequences lo and hi at the addresses la < ha
StrMem(la, lo, ha, hi) ==
    SubSeq(Junk, 1, la) \o lo \o SubSeq(Junk, la + Len(lo) + 1, ha) \o hi
    \o SubSeq(Junk, ha + Len(hi) + 1, ha + Len(hi) + 3 * ZMM_SZ)

\* The first page of the image ends at PageEnd.  <<lower address, alignment
\* of the upper address>>: far from the page end with equal and with different
\* alignment, near it on either side of half a cache line, and running across it
PageEnd == PAGE_SZ - PageBias

StrPlaces ==
    {<<PageEnd + 64, 0>>, <<PageEnd + 69, 5>>, <<PageEnd + 69, 19>>,
     <<PageEnd - 128, 32>>, <<PageEnd - 100, 44>>, <<PageEnd - 100, 28>>,
     <<PageEnd - 54, 10>>, <<PageEnd - 54, 0>>, <<PageEnd - 20, 44>>,
     <<PageEnd - 20, 5>>}

\* the upper address: a cache line and more above the lower string
UpperAddr(pl, len) == RoundUp(pl[1] + len + 3 * ZMM_SZ, ZMM_SZ) + pl[2]

\* where s2 leaves s1
DiffsOf(len) == {0, len \div 2, len - 1, len} \cap (0..len)

StrcmpCall(f, kind, len, d, x, pl, swap, n) ==
    [fn |-> f, kind |-> kind, len |-> len, d |-> d, x |-> x,
     str1 |-> IF swap THEN UpperAddr(pl, len) ELSE pl[1],
     str2 |-> IF swap THEN pl[1] ELSE UpperAddr(pl, len), size |-> n]

StrcmpMem(c) ==
    LET s1 == Str1Bytes(c.kind, c.len)
        s2 == Str2Bytes(c.kind, c.len, c.d, c.x)
    IN IF c.str1 < c.str2 THEN StrMem(c.str1, s1, c.str2, s2)
       ELSE StrMem(c.str2, s2, c.str1, s1)

\* the string at the lower address is str1 for even lengths, str2 for odd ones
InitStrcmp ==
    /\ \E len \in StrLens : \E f \in {"strcmp_avx2", "strcmp_avx512"},
                               kind \in {"lo", "mixed"}, d \in DiffsOf(len),
                               x \in {"nul", "other"}, pl \in StrPlaces :
           call = StrcmpCall(f, kind, len, d, x, pl, len % 2 = 1, 0)
    /\ mem = StrcmpMem(call)
    /\ ret = 0
    /\ pc = "ready"

Call_strcmp_avx2 ==
    /\ pc = "ready"
    /\ call.fn = "strcmp_avx2"
    /\ ret' = strcmp_avx2(mem, call.str1, call.str2, 0, FALSE)
    /\ pc' = "done"
    /\ UNCHANGED <<call, mem>>

Call_strcmp_avx512 ==
    /\ pc = "ready"
    /\ call.fn = "strcmp_avx512"
    /\ ret' = strcmp_avx512(mem, call.str1, call.str2, 0, FALSE)
    /\ pc' = "done"
    /\ UNCHANGED <<call, mem>>

NextStrcmp == Call_strcmp_avx2 \/ Call_strcmp_avx512

SpecStrcmp == InitStrcmp /\ [][NextStrcmp]_vars

\* C4: _strcmp_avx2 returns what test_strcmp returns, for strings over the
\* bytes 1..255 at every alignment pair: the difference of the bytes at the
\* first mismatch or terminator, never that of an equal byte before it.
C4_StrcmpAvx2Ref ==
    (pc = "done" /\ call.fn = "strcmp_avx2") =>
        ret = test_strcmp(mem, call.str1, call.str2)

\* C5: _strcmp_avx512 returns what test_strcmp returns, for strings over the
\* bytes 1..255, alignments equal and different modulo 64, starts near and far
\* from a page end; bytes after the first terminator do not change the result.
C5_StrcmpAvx512Ref ==
    (pc = "done" /\ call.fn = "strcmp_avx512") =>
        ret = test_strcmp(mem, call.str1, call.str2)

C4_Witness ==
    /\ pc = "done" /\ call.fn = "strcmp_avx2"
    /\ call.kind = "mixed" /\ call.d >= 4
    /\ mem[call.str1 + 4] >= 128 /\ mem[call.str1 + 4] = mem[call.str2 + 4]
    /\ ret = 0
    /\ test_strcmp(mem, call.str1, call.str2) # 0

C5_Witness ==
    /\ pc = "done" /\ call.fn = "strcmp_avx512"
    /\ call.kind = "mixed" /\ call.x = "nul" /\ call.d = call.len /\ call.len > 2 * ZMM_SZ
    /\ PageOff(call.str1) > PAGE_SZ - ZMM_SZ
    /\ PageOff(call.str1) % ZMM_SZ # PageOff(call.str2) % ZMM_SZ
    /\ mem[call.str1 + call.len + 2] # mem[call.str2 + call.len + 2]
    /\ ret = 0

(***************************************************************************)
(* The calls of the bounded string compare kernels.                        *)
(***************************************************************************)
StrLensN == (0..MaxStrN) \cup {33, 64, 65, 100, 129, 200, 257, 330}

StrPlacesN ==
    {<<PageEnd + 64, 0>>, <<PageEnd + 69, 19>>, <<PageEnd - 100, 44>>,
     <<PageEnd - 54, 10>>, <<PageEnd - 20, 5>>}

\* the bounds n: none, one byte, up to and just past the first stop, half way
\* to it, and more than both strings hold
BoundsOf(len, d) == {0, 1, d, d + 1, (d \div 2) + 1, len + 300}

InitStrncmp ==
    /\ \E len \in StrLensN : \E d \in DiffsOf(len) : \E n \in BoundsOf(len, d) :
       \E f \in {"strncmp_avx2", "strncmp_avx512"}, kind \in {"lo", "mixed"},
          x \in {"nul", "other"}, pl \in StrPlacesN :
           call = StrcmpCall(f, kind, len, d, x, pl, len % 2 = 1, n)
    /\ mem = StrcmpMem(call)
    /\ ret = 0
    /\ pc = "ready"

Call_strncmp_avx2 ==
    /\ pc = "ready"
    /\ call.fn = "strncmp_avx2"
    /\ ret' = strcmp_avx2(mem, call.str1, call.str2, call.size, TRUE)
    /\ pc' = "done"
    /\ UNCHANGED <<call, mem>>

Call_strncmp_avx512 ==
    /\ pc = "ready"
    /\ call.fn = "strncmp_avx512"
    /\ ret' = strcmp_avx512(mem, call.str1, call.str2, call.size, TRUE)
    /\ pc' = "done"
    /\ UNCHANGED <<call, mem>>

NextStrncmp == Call_strncmp_avx2 \/ Call_strncmp_avx512

SpecStrncmp == InitStrncmp /\ [][NextStrncmp]_vars

\* the first index from i on where str1 ends or the strings differ
RECURSIVE FirstStop(_, _, _, _)
FirstStop(m, str1, str2, i) ==
    IF m[str1 + i + 1] # 0 /\ m[str1 + i + 1] = m[str2 + i + 1]
    THEN FirstStop(m, str1, str2, i + 1)
    ELSE i

\* what strncmp has to return
StrncmpRef(m, str1, str2, n) ==
    LET i == FirstStop(m, str1, str2, 0)
    IN IF n = 0 \/ i >= n THEN 0 ELSE m[str1 + i + 1] - m[str2 + i + 1]

\* C6: _strncmp_avx2 and _strncmp_avx512 return 0 when n = 0 or the first stop
\* (mismatch or NUL of s1) lies at an index >= n, and otherwise the difference
\* of the bytes at the first stop.
C6_StrncmpRef ==
    (pc = "done" /\ call.fn \in {"strncmp_avx2", "strncmp_avx512"}) =>
        ret = StrncmpRef(mem, call.str1, call.str2, call.size)

C6_Witness ==
    /\ pc = "done" /\ call.fn = "strncmp_avx2"
    /\ call.kind = "mixed" /\ call.size > call.d /\ call.d >= 4
    /\ mem[call.str1 + 4] >= 128 /\ mem[call.str1 + 4] = mem[call.str2 + 4]
    /\ ret = 0
    /\ StrncmpRef(mem, call.str1, call.str2, call.size) # 0

\* The AVX-512 kernel alone meets the statement of C6 ...
StrncmpAvx512Ref ==
    (pc = "done" /\ call.fn = "strncmp_avx512") =>
        ret = StrncmpRef(mem, call.str1, call.str2, call.size)

\* ... and so do both AVX2 kernels on strings without a byte of 128 or more.
StrcmpAvx2LowRef ==
    (pc = "done" /\ call.fn \in {"strcmp_avx2", "strncmp_avx2"} /\ call.kind = "lo") =>
        ret = IF call.fn = "strcmp_avx2" THEN test_strcmp(mem, call.str1, call.str2)
              ELSE StrncmpRef(mem, call.str1, call.str2, call.size)

(***************************************************************************)
(* strstr (isa/avx512/optimized/strstr_avx512.c,                           *)
(* isa/avx2/optimized/strstr_avx2.c).  A pointer result is the address     *)
(* returned, NULL is -1.                                                   *)
(***************************************************************************)
\* The strlen and strchr kernels the strstr kernels call are not part of the
\* sources at hand: the length up to the terminator, and the address of the
\* first byte c of the string (c is never the terminator here)
str_len(m, s) ==
    LET RECURSIVE find(_, _)
        find(lo, hi) ==
            IF hi - lo <= 1 THEN IF lo < hi /\ m[s + lo + 1] = 0 THEN lo ELSE hi
            ELSE LET mid == (lo + hi) \div 2
                     l == find(lo, mid)
                 IN IF l < mid THEN l ELSE find(mid, hi)
    IN find(0, Len(m) - s)

str_chr(m, s, c) ==
    LET RECURSIVE find(_, _)
        find(lo, hi) ==
            IF hi - lo <= 1 THEN IF lo < hi /\ m[s + lo + 1] \in {c, 0} THEN lo ELSE hi
            ELSE LET mid == (lo + hi) \div 2
                     l == find(lo, mid)
                 IN IF l < mid THEN l ELSE find(mid, hi)
        i == find(0, Len(m) - s)
    IN IF m[s + i + 1] = c THEN s + i ELSE -1

\* the mask of the lanes of v that hold the byte b
EqByteMask(v, b) == {j \in 0..(Len(v) - 1) : v[j + 1] = b}

\* a mask as the integer the instruction delivers
RECURSIVE MaskVal(_)
MaskVal(mask) ==
    IF mask = {} THEN 0
    ELSE LET j == CHOOSE k \in mask : TRUE
         IN 2^j + MaskVal(mask \ {j})

\* (m_ptr ^ last_ptr) < PAGE_SZ: both addresses lie in one page
SamePage(a, b) == ((a + PageBias) \div PAGE_SZ) = ((b + PageBias) \div PAGE_SZ)

\* cmp_needle_page_safe: 0 when the size bytes at str1 and str2 are equal
cmp_needle_page_safe(m, str1, str2, size) ==
    LET ne(off, k) == IF Load(m, str1 + off, k) = Load(m, str2 + off, k) THEN 0 ELSE 1
        blocks == size \div (4 * ZMM_SZ)
        offset == blocks * 4 * ZMM_SZ
        left_out == size - offset
    IN IF size <= ZMM_SZ THEN ne(0, size)
       ELSE IF size <= 2 * ZMM_SZ
       THEN IF ne(0, ZMM_SZ) # 0 THEN -1 ELSE ne(size - ZMM_SZ, ZMM_SZ)
       ELSE IF size <= 4 * ZMM_SZ
       THEN IF ne(0, 2 * ZMM_SZ) = 0 /\ ne(size - 2 * ZMM_SZ, 2 * ZMM_SZ) = 0 THEN 0 ELSE 1
       ELSE IF \E b \in 0..(blocks - 1) : ne(b * 4 * ZMM_SZ, 4 * ZMM_SZ) # 0 THEN -1
       ELSE IF left_out = 0 THEN 0
       ELSE IF left_out <= ZMM_SZ THEN ne(offset, left_out)
       ELSE IF left_out <= 2 * ZMM_SZ
       THEN IF ne(offset, ZMM_SZ) # 0 THEN -1 ELSE ne(size - ZMM_SZ, ZMM_SZ)
       ELSE IF ne(offset, 2 * ZMM_SZ) = 0 /\ ne(size - 2 * ZMM_SZ, 2 * ZMM_SZ) = 0
            THEN 0 ELSE 1

\* cmp_needle_page_cross: the safe_bytes up to the end of the page under the
\* mask, then the tail, again by the distance of either string to its page end
RECURSIVE cmp_needle_page_cross(_, _, _, _, _)
cmp_needle_page_cross(m, str1, str2, size, safe_bytes) ==
    LET offset == safe_bytes
        tail == size - offset
        tail_offset1 == PAGE_SZ - PageOff(str1 + offset)
        tail_offset2 == PAGE_SZ - PageOff(str2 + offset)
        tail_safe_bytes == IF tail_offset1 < tail_offset2 THEN tail_offset1 ELSE tail_offset2
    IN IF Load(m, str1, safe_bytes) # Load(m, str2, safe_bytes) THEN -1
       ELSE IF tail > 0
       THEN IF tail_safe_bytes >= tail
            THEN cmp_needle_page_safe(m, str1 + offset, str2 + offset, tail)
            ELSE cmp_needle_page_cross(m, str1 + offset, str2 + offset, tail, tail_safe_bytes)
       ELSE 0

cmp_needle_avx512(m, haystack, needle, hay_idx, needle_len) ==
    LET offset1 == PAGE_SZ - PageOff(haystack + hay_idx)
        offset2 == PAGE_SZ - PageOff(needle)
        safe_bytes == IF offset1 < offset2 THEN offset1 ELSE offset2
    IN IF safe_bytes >= needle_len
       THEN cmp_needle_page_safe(m, haystack + hay_idx, needle, needle_len)
       ELSE cmp_needle_page_cross(m, haystack + hay_idx, needle, needle_len, safe_bytes)

\* if (*(char*)last_ptr == last_char): last_char is a uint8_t, the byte read
\* is a char, which is signed, and both are compared as int
last_char_probe(m, haystack, needle, needle_len, pos) ==
    SignedByte(m[haystack + pos + needle_len]) = m[needle + needle_len]

\* a candidate check that takes the first candidate without comparing
first_match_unchecked(m, haystack, needle, needle_len, base, match_mask) ==
    IF match_mask = {} THEN -1 ELSE haystack + base + Tzcnt(match_mask, ZMM_SZ)

\* while (match_mask) { ... match_mask = _blsr_u64(match_mask); }: the candidates
\* base + i, lowest first; the last byte is read before the full compare only
\* when it lies in the page of the first.  The address of the first candidate
\* that compares equal, or NULL.
first_match_avx512(m, haystack, needle, needle_len, base, match_mask) ==
    LET ok(pos) ==
            /\ SamePage(haystack + pos, haystack + pos + needle_len - 1)
                  => last_char_probe(m, haystack, needle, needle_len, pos)
            /\ cmp_needle_avx512(m, haystack, needle, pos, needle_len) = 0
        hits == {i \in match_mask : ok(base + i)}
    IN IF hits = {} THEN -1 ELSE haystack + base + Tzcnt(hits, ZMM_SZ)

\* lines 343-408: the loop over the aligned blocks
RECURSIVE strstr_avx512_loop(_, _, _, _, _)
strstr_avx512_loop(m, haystack, needle, needle_len, offset) ==
    LET z1 == Load(m, haystack + offset, ZMM_SZ)
        null_mask == EqByteMask(z1, 0)
        null_idx == Tzcnt(null_mask, ZMM_SZ)
        match_mask == EqByteMask(z1, m[needle + 1])
        found == first_match_avx512(m, haystack, needle, needle_len, offset,
                     IF null_mask # {}
                     THEN {i \in match_mask : i <= null_idx /\ i + needle_len <= null_idx + 1}
                     ELSE match_mask)
    IN IF null_mask # {} \/ found # -1 THEN found
       ELSE strstr_avx512_loop(m, haystack, needle, needle_len, offset + ZMM_SZ)

\* _strstr_avx512
strstr_avx512(m, haystack, needle) ==
    IF m[needle + 1] = 0 THEN haystack
    ELSE IF m[haystack + 1] = 0 THEN -1
    ELSE IF m[needle + 2] = 0 THEN str_chr(m, haystack, m[needle + 1])
    ELSE LET needle_len == str_len(m, needle)
             offset == PageOff(haystack) % ZMM_SZ
             z1 == IF (PAGE_SZ - ZMM_SZ) < PageOff(haystack)
                   THEN MaskLoadu(Ones512, ZMM_SZ - offset, m, haystack)
                   ELSE Load(m, haystack, ZMM_SZ)
             null_mask == EqByteMask(z1, 0)
             null_idx == Tzcnt(null_mask, ZMM_SZ)
             match_mask == EqByteMask(z1, m[needle + 1])
             found == first_match_avx512(m, haystack, needle, needle_len, 0,
                          IF null_mask # {}
                          THEN {i \in match_mask : i <= null_idx}
                          ELSE match_mask)
         IN IF null_mask # {}
            THEN IF null_idx < needle_len THEN -1 ELSE found
            ELSE IF found # -1 THEN found
            ELSE strstr_avx512_loop(m, haystack, needle, needle_len, ZMM_SZ - offset)

\* cmp_needle_ble_ymm: two overlapping chunks of c = 2, 4, 8 or 16 bytes; a lane
\* counts when the bytes are equal and the byte of str1 is above 0 as a signed
\* char; ret = movemask + 1 cut to the c low bits
cmp_needle_ble_ymm(m, str1, str2, size) ==
    LET c == IF size <= 4 THEN 2 ELSE IF size <= 8 THEN 4 ELSE IF size <= 16 THEN 8 ELSE 16
        chunk(off) ==
            (MaskVal({j \in 0..(c - 1) :
                        /\ m[str1 + off + j + 1] = m[str2 + off + j + 1]
                        /\ SignedByte(m[str1 + off + j + 1]) > 0}) + 1) % (2^c)
    IN IF size = 1 THEN m[str1 + 1] - m[str2 + 1]
       ELSE IF size > 2 * 16 THEN 0
       ELSE IF chunk(0) # 0 THEN chunk(0)
       ELSE chunk(size - c)

\* cmp_needle_page_safe_avx2: 0 when no difference is seen (movemask + 1 is 0
\* exactly when all 32 lanes are equal; the callers test the result against 0)
cmp_needle_page_safe_avx2(m, str1, str2, size) ==
    LET eq(off, k) == Load(m, str1 + off, k) = Load(m, str2 + off, k)
        cmp(off) == IF eq(off, YMM_SZ) THEN 0 ELSE 1
        blocks == size \div (4 * YMM_SZ)
        offset == blocks * 4 * YMM_SZ
        left_out == (size - offset) % 256
        chunks == (left_out \div 32) + 1
    IN IF size <= YMM_SZ THEN cmp_needle_ble_ymm(m, str1, str2, size)
       ELSE IF size <= 2 * YMM_SZ
       THEN IF cmp(0) # 0 THEN cmp(0) ELSE cmp(size - YMM_SZ)
       ELSE IF size <= 4 * YMM_SZ
       THEN IF eq(0, 2 * YMM_SZ) /\ eq(size - 2 * YMM_SZ, 2 * YMM_SZ) THEN 0 ELSE -1
       ELSE IF \E b \in 0..(blocks - 1) : ~eq(b * 4 * YMM_SZ, 4 * YMM_SZ) THEN -1
       ELSE IF left_out = 0 THEN 0
       ELSE IF eq(size - chunks * YMM_SZ, chunks * YMM_SZ) THEN 0 ELSE -1

cmp_needle_page_cross_avx2(m, str1, str2, size, safe_bytes) ==
    IF \E i \in 0..(safe_bytes - 1) : m[str1 + i + 1] # m[str2 + i + 1] THEN -1
    ELSE IF size - safe_bytes > 0
            /\ cmp_needle_page_safe_avx2(m, str1 + safe_bytes, str2 + safe_bytes,
                                         size - safe_bytes) # 0
    THEN -1
    ELSE 0

\* cmp_needle_avx2: whether the needle is found at hay_idx
cmp_needle_avx2(m, haystack, needle, hay_idx, needle_len) ==
    LET bytes_to_page_end == PAGE_SZ - PageOff(haystack + hay_idx)
    IN IF bytes_to_page_end < needle_len
       THEN cmp_needle_page_cross_avx2(m, haystack + hay_idx, needle, needle_len,
                                       bytes_to_page_end) = 0
       ELSE cmp_needle_page_safe_avx2(m, haystack + hay_idx, needle, needle_len) = 0

\* _mm256_movemask_epi8(...) >> offset: the mask is an int, bit 31 is its sign
\* and the shift carries it into the places it vacates
movemask_shr(mask, offset) ==
    {j - offset : j \in {k \in mask : k >= offset}}
    \cup (IF (YMM_SZ - 1) \in mask THEN (YMM_SZ - offset)..(YMM_SZ - 1) ELSE {})

\* process_full_search_avx2
process_full_search_avx2(m, haystack, needle, needle_len, base_offset, match_mask, null_mask) ==
    LET hits == {i \in match_mask :
                   /\ null_mask # {} => i <= Tzcnt(null_mask, YMM_SZ)
                   /\ cmp_needle_avx2(m, haystack, needle, i + base_offset, needle_len)}
    IN IF hits = {} THEN -1 ELSE haystack + Tzcnt(hits, YMM_SZ) + base_offset

\* apply_filter_avx2: the candidates left by the second-byte and last-byte filters
apply_filter_avx2(m, haystack, offset, needle_len, needle_second, needle_last, match_mask) ==
    LET bytes_to_page_end == PAGE_SZ - PageOff(haystack + offset)
        second == IF bytes_to_page_end > 1 + YMM_SZ
                  THEN {i \in match_mask : m[haystack + offset + 1 + i + 1] = needle_second}
                  ELSE match_mask
    IN IF needle_len <= 512 /\ bytes_to_page_end > needle_len + YMM_SZ
       THEN {i \in second : m[haystack + offset + needle_len - 1 + i + 1] = needle_last}
       ELSE second

\* lines 404-422: the main search loop
RECURSIVE strstr_avx2_loop(_, _, _, _, _)
strstr_avx2_loop(m, haystack, needle, needle_len, offset) ==
    LET y1 == Load(m, haystack + offset, YMM_SZ)
        match_mask == EqByteMask(y1, m[needle + 1])
        null_mask == EqByteMask(y1, 0)
        filtered == IF match_mask \ null_mask # {}
                    THEN apply_filter_avx2(m, haystack, offset, needle_len, m[needle + 2],
                                           m[needle + needle_len], match_mask)
                    ELSE match_mask
        result == process_full_search_avx2(m, haystack, needle, needle_len, offset,
                                           filtered, null_mask)
    IN IF result # -1 THEN result
       ELSE IF null_mask # {} THEN -1
       ELSE strstr_avx2_loop(m, haystack, needle, needle_len, offset + YMM_SZ)

\* _strstr_avx2_broadcasting
strstr_avx2_broadcasting(m, haystack, needle, needle_len) ==
    LET offset == PageOff(haystack) % YMM_SZ
        near == (PAGE_SZ - YMM_SZ) < PageOff(haystack)
        y1 == IF near THEN Load(m, haystack - offset, YMM_SZ) ELSE Load(m, haystack, YMM_SZ)
        null_mask == IF near THEN movemask_shr(EqByteMask(y1, 0), offset)
                     ELSE EqByteMask(y1, 0)
        match_mask == IF near THEN movemask_shr(EqByteMask(y1, m[needle + 1]), offset)
                      ELSE EqByteMask(y1, m[needle + 1])
        null_idx == Tzcnt(null_mask, YMM_SZ)
        filtered == IF match_mask # {} /\ (null_mask = {} \/ null_idx > 1)
                    THEN apply_filter_avx2(m, haystack, 0, needle_len, m[needle + 2],
                                           m[needle + needle_len], match_mask)
                    ELSE match_mask
        result == process_full_search_avx2(m, haystack, needle, needle_len, 0,
                                           filtered, null_mask)
    IN IF null_mask # {} /\ null_idx < needle_len THEN -1
       ELSE IF result # -1 THEN result
       ELSE IF null_mask # {} THEN -1
       ELSE strstr_avx2_loop(m, haystack, needle, needle_len, YMM_SZ - offset)

\* _strstr_avx2
strstr_avx2(m, haystack, needle) ==
    IF m[needle + 1] = 0 THEN haystack
    ELSE IF m[haystack + 1] = 0 THEN -1
    ELSE IF m[needle + 2] = 0 THEN str_chr(m, haystack, m[needle + 1])
    ELSE strstr_avx2_broadcasting(m, haystack, needle, str_len(m, needle))

\* test_strstr, the double loop of the validator: inner(p1) is the index at
\* which the loop over q1, q2 started at p1 ends, outer the address at which
\* the loop over p1 ends (each loop is run as a search for its first exit)
test_strstr(m, str1, str2) ==
    LET RECURSIVE inner(_, _, _)
        inner(p1, lo, hi) ==
            IF hi - lo <= 1
            THEN IF lo < hi /\ ~(/\ m[p1 + lo + 1] # 0
                                 /\ m[str2 + lo + 1] # 0
                                 /\ m[p1 + lo + 1] = m[str2 + lo + 1])
                 THEN lo ELSE hi
            ELSE LET mid == (lo + hi) \div 2
                     l == inner(p1, lo, mid)
                 IN IF l < mid THEN l ELSE inner(p1, mid, hi)
        exit(p1) ==
            \/ m[p1 + 1] = 0
            \/ /\ m[p1 + 1] = m[str2 + 1]
               /\ m[str2 + inner(p1, 0, Len(m) - Max(p1, str2)) + 1] = 0
        RECURSIVE outer(_, _)
        outer(lo, hi) ==
            IF hi - lo <= 1 THEN IF lo < hi /\ exit(lo) THEN lo ELSE hi
            ELSE LET mid == (lo + hi) \div 2
                     l == outer(lo, mid)
                 IN IF l < mid THEN l ELSE outer(mid, hi)
        p1 == outer(str1, Len(m))
    IN IF m[str2 + 1] = 0 THEN str1
       ELSE IF m[p1 + 1] = 0 THEN -1
       ELSE p1

(***************************************************************************)
(* The calls of the strstr kernels.  The haystack is a filler of period 3; *)
(* the needle follows the filler up to its last byte, which the filler     *)
(* never holds, so that every third byte of the haystack starts a partial  *)
(* match.  A copy of the needle is laid at index p of the haystack image   *)
(* (p = -1: none), before the terminator, across it or behind it, and the  *)
(* terminator is written over the image at index hl.                       *)
(***************************************************************************)
MaxNeedle == 300

StrstrKind(kind) ==
    CASE kind = "lo" -> [base |-> 97, ph |-> 0, z |-> 122]
      [] kind = "hi" -> [base |-> 200, ph |-> 1, z |-> 131]
      [] kind = "ff" -> [base |-> 253, ph |-> 2, z |-> 9]

NeedleByte(k, nl, j) == IF j = nl - 1 THEN k.z ELSE k.base + ((j + k.ph) % 3)

NeedleBytes(kind, nl) == [j \in 1..nl |-> NeedleByte(StrstrKind(kind), nl, j - 1)] \o <<0>>

HayBytes(kind, hl, nl, p, again) ==
    LET k == StrstrKind(kind)
        len == Max(hl, p + 2 * nl + 2) + nl + 2 * ZMM_SZ
    IN [i \in 1..len |->
          LET x == i - 1
          IN IF x = hl THEN 0
             ELSE IF p >= 0 /\ x >= p /\ x < p + nl THEN NeedleByte(k, nl, x - p)
             ELSE IF again /\ x > p + nl /\ x <= p + 2 * nl THEN NeedleByte(k, nl, x - p - nl - 1)
             ELSE k.base + (x % 3)]

NeedleLens == {0, 1, 2, 3, 4, 7, 16, 32, 33, 70, 129, MaxNeedle}

HayLens(nl) == {l \in {0, 1, nl - 1, nl, nl + 9, nl + 40, nl + 70, nl + 150} : l >= 0}

\* <<p, again>>: no copy, at the front, twice, at the very end, cut by the
\* terminator, and behind the terminator
NeedleAt(hl, nl) ==
    {pa \in {<<-1, FALSE>>, <<0, FALSE>>, <<2, TRUE>>, <<hl - nl, FALSE>>,
             <<hl - nl + 1, FALSE>>, <<hl + 1, FALSE>>, <<hl + 12, FALSE>>} : pa[1] >= -1}

\* <<which string lies lower, its address, the alignment of the other one>>
StrstrPlaces ==
    {<<"needle", PageEnd + 69, 0>>, <<"needle", PageEnd + 69, 19>>,
     <<"needle", PageEnd - 5, 7>>, <<"hay", PageEnd - 10, 3>>,
     <<"hay", PageEnd - 40, 0>>, <<"hay", PageEnd - 100, 50>>}

StrstrCall(f, kind, hl, nl, pa, pl) ==
    LET lowlen == IF pl[1] = "hay" THEN Len(HayBytes(kind, hl, nl, pa[1], pa[2])) ELSE nl + 1
        upper == RoundUp(pl[2] + lowlen, ZMM_SZ) + ZMM_SZ + pl[3]
    IN [fn |-> f, kind |-> kind, hl |-> hl, nl |-> nl, p |-> pa[1], again |-> pa[2],
        haystack |-> IF pl[1] = "hay" THEN pl[2] ELSE upper,
        needle |-> IF pl[1] = "hay" THEN upper ELSE pl[2]]

StrstrMem(c) ==
    LET h == HayBytes(c.kind, c.hl, c.nl, c.p, c.again)
        n == NeedleBytes(c.kind, c.nl)
    IN IF c.haystack < c.needle
       THEN StrMem(c.haystack, h, c.needle, n)
       ELSE StrMem(c.needle, n, c.haystack, h)

InitStrstr ==
    /\ \E nl \in NeedleLens : \E hl \in HayLens(nl) : \E pa \in NeedleAt(hl, nl) :
       \E f \in {"strstr_avx512", "strstr_avx2"}, kind \in {"lo", "hi", "ff"},
          pl \in StrstrPlaces :
           call = StrstrCall(f, kind, hl, nl, pa, pl)
    /\ mem = StrstrMem(call)
    /\ ret = 0
    /\ pc = "ready"

Call_strstr_avx512 ==
    /\ pc = "ready"
    /\ call.fn = "strstr_avx512"
    /\ ret' = strstr_avx512(mem, call.haystack, call.needle)
    /\ pc' = "done"
    /\ UNCHANGED <<call, mem>>

Call_strstr_avx2 ==
    /\ pc = "ready"
    /\ call.fn = "strstr_avx2"
    /\ ret' = strstr_avx2(mem, call.haystack, call.needle)
    /\ pc' = "done"
    /\ UNCHANGED <<call, mem>>

NextStrstr == Call_strstr_avx512 \/ Call_strstr_avx2

SpecStrstr == InitStrstr /\ [][NextStrstr]_vars

\* C7: _strstr_avx512 returns the pointer test_strstr returns: the haystack for
\* an empty needle, NULL for an absent or too long needle, and otherwise the
\* address of the first occurrence.
C7_StrstrAvx512Ref ==
    (pc = "done" /\ call.fn = "strstr_avx512") =>
        ret = test_strstr(mem, call.haystack, call.needle)

\* C8: _strstr_avx2 returns the pointer test_strstr returns, and cmp_needle_avx2
\* reports equality exactly when the needle_len bytes at the candidate are the
\* needle.
C8_StrstrAvx2Ref ==
    (pc = "done" /\ call.fn = "strstr_avx2") =>
        /\ ret = test_strstr(mem, call.haystack, call.needle)
        /\ (call.p >= 0 /\ call.nl >= 1) =>
              (cmp_needle_avx2(mem, call.haystack, call.needle, call.p, call.nl)
                  <=> (Load(mem, call.haystack + call.p, call.nl)
                          = Load(mem, call.needle, call.nl)))

C7_Witness ==
    /\ pc = "done" /\ call.fn = "strstr_avx512"
    /\ call.kind = "ff" /\ call.nl = 2 /\ call.p > call.hl
    /\ (PAGE_SZ - ZMM_SZ) < PageOff(call.haystack)
    /\ ret = call.haystack + call.p
    /\ test_strstr(mem, call.haystack, call.needle) = -1

C8_Witness ==
    /\ pc = "done" /\ call.fn = "strstr_avx2"
    /\ call.kind = "hi" /\ call.nl = 2 /\ call.hl = 2 /\ call.p = 0
    /\ Load(mem, call.haystack, 3) = Load(mem, call.needle, 3)
    /\ ret = -1
    /\ test_strstr(mem, call.haystack, call.needle) = call.haystack

\* _strstr_avx512 agrees with test_strstr on needles of bytes below 128 ...
StrstrAvx512Ref_Low ==
    (pc = "done" /\ call.fn = "strstr_avx512" /\ call.kind = "lo") =>
        ret = test_strstr(mem, call.haystack, call.needle)

\* ... and _strstr_avx2 on bytes below 128 when no copy of the needle lies
\* behind the terminator of the haystack.
StrstrAvx2Ref_LowInside ==
    (pc = "done" /\ call.fn = "strstr_avx2" /\ call.kind = "lo" /\ call.p <= call.hl) =>
        ret = test_strstr(mem, call.haystack, call.needle)

(***************************************************************************)
(* strcpy and strncpy (isa/avx2/optimized/strcpy_avx2.c,                   *)
(* isa/avx512/optimized/strcpy_avx512.c).  Each file is compiled twice:    *)
(* N = FALSE is the strcpy build, N = TRUE the strncpy build with its      *)
(* size.  w is the vector width, YMM_SZ for the AVX2 file and ZMM_SZ for   *)
(* the AVX-512 one.  A kernel is the memory it leaves; it returns dst.     *)
(***************************************************************************)
Zero(k) == <<>> \o [i \in 1..k |-> 0]

\* the copy without its second, overlapping chunk
strcpy_ble_head(m, dst, src, size) ==
    LET c == IF size = 1 THEN 1 ELSE IF size <= 4 THEN 2 ELSE IF size <= 8 THEN 4
             ELSE IF size <= 16 THEN 8 ELSE 16
    IN Store(m, dst, Load(m, src, c))

\* strcpy_ble_ymm: at most 32 bytes as two overlapping chunks of 2, 4, 8 or 16
strcpy_ble_ymm(m, dst, src, size) ==
    LET c == IF size <= 4 THEN 2 ELSE IF size <= 8 THEN 4 ELSE IF size <= 16 THEN 8 ELSE 16
        m1 == Store(m, dst, Load(m, src, c))
    IN IF size = 1 THEN Store(m, dst, Load(m, src, 1))
       ELSE Store(m1, dst + size - c, Load(m1, src + size - c, c))

\* __erms_stosb (base_impls/memset_erms_impls.h): rep stosb of size bytes val
erms_stosb(m, a, val, size) == Store(m, a, <<>> \o [i \in 1..size |-> val])

\* while (offset < size): four aligned vectors of zeros
RECURSIVE fill_null_loop(_, _, _, _, _)
fill_null_loop(m, a, offset, size, w) ==
    IF offset < size
    THEN LET m1 == Store(m, a + offset, Zero(4 * w))
         IN IF Len(m1) = Len(m) THEN fill_null_loop(m1, a, offset + 4 * w, size, w) ELSE m1
    ELSE m

\* the zero fill without its loop
fill_null_ends(m, a, size, w) ==
    LET k == IF size <= 4 * w THEN 2 ELSE 4
    IN Store(Store(m, a, Zero(k * w)), a + size - k * w, Zero(k * w))

\* _fill_null_avx2 / _fill_null_avx512 from two vectors on: the first and the
\* last two or four vectors, and the loop over what lies between
fill_null_vecs(m, a, size, w) ==
    LET ends(k) == Store(Store(m, a, Zero(k * w)), a + size - k * w, Zero(k * w))
    IN IF size <= 4 * w THEN ends(2)
       ELSE IF size <= 8 * w THEN ends(4)
       ELSE fill_null_loop(ends(4), a, 4 * w - (PageOff(a) % w), size - 4 * w, w)

\* _fill_null_avx2 (w = YMM_SZ) and _fill_null_avx512 (w = ZMM_SZ)
fill_null(m, a, size, w) ==
    LET two(k) == Store(Store(m, a, Zero(k)), a + size - k, Zero(k))
    IN IF size >= 2 * w THEN fill_null_vecs(m, a, size, w)
       ELSE IF w = ZMM_SZ THEN erms_stosb(m, a, 0, size)
       ELSE IF size >= YMM_SZ THEN two(YMM_SZ)
       ELSE IF size >= 16 THEN two(16)
       ELSE IF size > 8 THEN two(8)
       ELSE IF size > 4 THEN two(4)
       ELSE IF size >= 2 THEN two(2)
       ELSE IF size > 0 THEN Store(m, a, Zero(1))
       ELSE m

\* k < w bytes of the vector loaded at s: strcpy_ble_ymm in the AVX2 file,
\* _mm512_mask_storeu_epi8 under _bzhi_u64(UINT64_MAX, k) in the AVX-512 file
copy_part(m, d, s, k, w) ==
    IF w = YMM_SZ THEN strcpy_ble_ymm(m, d, s, k) ELSE Store(m, d, Load(m, s, k))

\* One vector of the loops at avx2 lines 254-304 and 311-359, avx512 lines
\* 180-233 and 241-291.  tail = "overlap": the strcpy build copies the w bytes
\* that end at the terminator, tail = "masked": the lanes up to the terminator.
\* at: "return", or "next" with the offset to go on from.
str_vec_step(m, dst, src, size, N, offset, w, tail) ==
    LET v == Load(m, src + offset, w)
        match == EqByteMask(v, 0)
        null_idx == Tzcnt(match, w)
        rem == size - offset
        slen == IF null_idx + 1 < rem THEN null_idx + 1 ELSE rem
        null_start == offset + null_idx + 1
        index == offset + null_idx - w + 1
        copied == IF slen >= w THEN Store(m, dst + offset, v)
                  ELSE copy_part(m, dst + offset, src + offset, slen, w)
    IN IF N /\ offset >= size THEN [mem |-> m, offset |-> offset, at |-> "break"]
       ELSE IF match # {}
       THEN [mem |-> IF N
                     THEN IF null_start < size
                          THEN fill_null(copied, dst + null_start, size - null_start, w)
                          ELSE copied
                     ELSE IF tail = "overlap"
                     THEN Store(m, dst + index, Load(m, src + index, w))
                     ELSE Store(m, dst + offset, SubSeq(v, 1, null_idx + 1)),
             offset |-> offset, at |-> "return"]
       ELSE IF N /\ rem < w
       THEN [mem |-> copy_part(m, dst + offset, src + offset, rem, w),
             offset |-> offset + w,
             at |-> IF w = YMM_SZ THEN "return" ELSE "next"]
       ELSE [mem |-> Store(m, dst + offset, v), offset |-> offset + w, at |-> "next"]

\* at most cnt vectors
RECURSIVE str_vec_loop(_, _, _, _, _, _, _, _, _)
str_vec_loop(m, dst, src, size, N, offset, cnt, w, tail) ==
    IF cnt = 0 THEN [mem |-> m, offset |-> offset, at |-> "next"]
    ELSE LET s == str_vec_step(m, dst, src, size, N, offset, w, tail)
         IN IF s.at = "next" /\ Len(s.mem) = Len(m)
            THEN str_vec_loop(s.mem, dst, src, size, N, s.offset, cnt - 1, w, tail)
            ELSE s

\* avx2 lines 363-391, avx512 lines 295-321: four vectors at a time, up to the
\* four that hold a terminator (and, in the strncpy build, while four fit)
RECURSIVE str_main_loop(_, _, _, _, _, _, _)
str_main_loop(m, dst, src, size, N, offset, w) ==
    IF N /\ offset + 4 * w > size THEN [mem |-> m, offset |-> offset]
    ELSE LET v == Load(m, src + offset, 4 * w)
             m1 == Store(m, dst + offset, v)
         IN IF EqByteMask(v, 0) # {} THEN [mem |-> m, offset |-> offset]
            ELSE IF Len(m1) = Len(m)
            THEN str_main_loop(m1, dst, src, size, N, offset + 4 * w, w)
            ELSE [mem |-> m1, offset |-> offset]

\* avx2 lines 400-454, avx512 lines 330-383 (strcpy build): the vectors before
\* the one with the terminator, and the w bytes that end at the terminator
strcpy_tail_vecs(m, dst, src, offset, w) ==
    LET v(i) == Load(m, src + offset + i * w, w)
        z(i) == EqByteMask(v(i), 0)
        copy_tail_vec(mm, off, match) ==
            LET index == off + Tzcnt(match, w) - w + 1
            IN Store(mm, dst + index, Load(mm, src + index, w))
        s1 == Store(m, dst + offset, v(0))
        s2 == Store(s1, dst + offset + w, v(1))
        s3 == Store(s2, dst + offset + 2 * w, v(2))
    IN IF z(0) \cup z(1) # {}
       THEN IF z(0) # {} THEN copy_tail_vec(m, offset, z(0))
            ELSE copy_tail_vec(s1, offset + w, z(0) \cup z(1))
       ELSE IF z(2) # {} THEN copy_tail_vec(s2, offset + 2 * w, z(2))
            ELSE copy_tail_vec(s3, offset + 3 * w, z(0) \cup z(1) \cup z(2) \cup z(3))

\* handle_remaining (strncpy build): avx2 lines 457-510, avx512 lines 386-421
RECURSIVE strncpy_remaining(_, _, _, _, _, _)
strncpy_remaining(m, dst, src, size, offset, w) ==
    LET rem == size - offset
        block == IF rem >= w THEN w ELSE rem
        v == Load(m, src + offset, block)
        null_mask == EqByteMask(v, 0)
        null_idx == Tzcnt(null_mask, w)
        slen == IF null_idx + 1 < rem THEN null_idx + 1 ELSE rem
        pad_start == offset + null_idx + 1
        copied == IF rem >= w /\ (w = YMM_SZ \/ slen >= w)
                  THEN Store(m, dst + offset, v)
                  ELSE copy_part(m, dst + offset, src + offset, slen, w)
        m1 == IF rem >= w THEN Store(m, dst + offset, v)
              ELSE copy_part(m, dst + offset, src + offset, rem, w)
    IN IF offset >= size THEN m
       ELSE IF null_mask # {}
       THEN IF pad_start < size
            THEN fill_null(copied, dst + pad_start, size - pad_start, w)
            ELSE copied
       ELSE IF Len(m1) = Len(m)
       THEN strncpy_remaining(m1, dst, src, size,
                              offset + (IF w = YMM_SZ THEN block ELSE w), w)
       ELSE m1

\* avx2 lines 179-247: the first 32 bytes; near the end of a page the aligned
\* vector that holds src is looked at first
strcpy_avx2_first(m, dst, src, size, N) ==
    LET offset == PageOff(src) % YMM_SZ
        ya == Load(m, src - offset, YMM_SZ)
        reta == {j - offset : j \in {k \in EqByteMask(ya, 0) : k >= offset}}
        y1 == Load(m, src, YMM_SZ)
        found(v, mask) ==
            LET index == Tzcnt(mask, YMM_SZ) + 1
                slen == IF index < size THEN index ELSE size
                copied == IF slen >= YMM_SZ THEN Store(m, dst, v)
                          ELSE strcpy_ble_ymm(m, dst, src, slen)
            IN IF N
               THEN IF index < size
                    THEN fill_null(copied, dst + index, size - index, YMM_SZ)
                    ELSE copied
               ELSE strcpy_ble_ymm(m, dst, src, index)
    IN IF (PAGE_SZ - YMM_SZ) < PageOff(src) /\ reta # {}
       THEN [mem |-> found(ya, reta), at |-> "return"]
       ELSE IF EqByteMask(y1, 0) # {}
       THEN [mem |-> found(y1, EqByteMask(y1, 0)), at |-> "return"]
       ELSE IF N /\ size < YMM_SZ
       THEN [mem |-> strcpy_ble_ymm(m, dst, src, size), at |-> "return"]
       ELSE [mem |-> Store(m, dst, y1), at |-> "next"]

\* avx512 lines 110-173: the first 64 bytes; near the end of a page the bytes
\* up to the end of the page are loaded under a mask first
strcpy_avx512_first(m, dst, src, size, N) ==
    LET offset == PageOff(src) % ZMM_SZ
        za == MaskLoadu(Ones512, ZMM_SZ - offset, m, src)
        z1 == Load(m, src, ZMM_SZ)
        found(v, match) ==
            LET index == Tzcnt(match, ZMM_SZ)
                slen == IF index + 1 < size THEN index + 1 ELSE size
                copied == Store(m, dst, SubSeq(v, 1, slen))
            IN IF N
               THEN IF index + 1 < size
                    THEN fill_null(copied, dst + index + 1, size - (index + 1), ZMM_SZ)
                    ELSE copied
               ELSE Store(m, dst, SubSeq(v, 1, index + 1))
    IN IF (PAGE_SZ - ZMM_SZ) < PageOff(src) /\ EqByteMask(za, 0) # {}
       THEN [mem |-> found(za, EqByteMask(za, 0)), at |-> "return"]
       ELSE IF EqByteMask(z1, 0) # {}
       THEN [mem |-> found(z1, EqByteMask(z1, 0)), at |-> "return"]
       ELSE IF N /\ size < ZMM_SZ
       THEN [mem |-> Store(m, dst, SubSeq(z1, 1, size)), at |-> "next"]
       ELSE [mem |-> Store(m, dst, z1), at |-> "next"]

\* _strcpy_avx2 / _strncpy_avx2 (w = YMM_SZ), _strcpy_avx512 / _strncpy_avx512
\* (w = ZMM_SZ): the first vector, cnt_vec + 1 vectors, the vectors up to the
\* next multiple of four, the loop over four, and the tail
strcpy_vec(m, dst, src, size, N, w) ==
    LET first == IF w = YMM_SZ THEN strcpy_avx2_first(m, dst, src, size, N)
                 ELSE strcpy_avx512_first(m, dst, src, size, N)
        offset == w - (PageOff(src) % w)
        l1 == str_vec_loop(first.mem, dst, src, size, N, offset,
                           IF w = YMM_SZ THEN 6 ELSE 3, w, "overlap")
        cnt_vec == 4 - ((PageOff(src + l1.offset) % (4 * w)) \div w)
        l2 == str_vec_loop(l1.mem, dst, src, size, N, l1.offset, cnt_vec, w,
                           IF w = YMM_SZ THEN "overlap" ELSE "masked")
        l3 == str_main_loop(l2.mem, dst, src, size, N, l2.offset, w)
    IN IF N /\ size = 0 THEN m
       ELSE IF first.at = "return" THEN first.mem
       ELSE IF l1.at = "return" THEN l1.mem
       ELSE IF l2.at = "return" THEN l2.mem
       ELSE IF N THEN strncpy_remaining(l3.mem, dst, src, size, l3.offset, w)
       ELSE strcpy_tail_vecs(l3.mem, dst, src, l3.offset, w)

(***************************************************************************)
(* The calls of the string copy kernels.  src holds len bytes of 1..255,   *)
(* its terminator, and behind it bytes that are not part of the string;    *)
(* dst lies in a region of '#' bytes (35), a value no other byte of the    *)
(* image has, so that every byte of the region that is written differs     *)
(* from what it was.                                                       *)
(***************************************************************************)
MaxCpy == 70
MaxNCpy == 12

CpyLens ==
    (0..MaxCpy) \cup {95, 96, 127, 128, 129, 191, 192, 193, 224, 255, 256, 257, 300,
                      383, 384, 400, 511, 512, 513, 600, 700, 800, 900}

NCpyLens == (0..MaxNCpy) \cup {31, 32, 33, 63, 64, 65, 100, 128, 200, 257, 300, 520, 700}

\* the sizes of strncpy: none, short of the string, the string with and without
\* its terminator, and fills of every kind of _fill_null
NCpySizes(len) ==
    {n \in {0, 1, 2, len \div 2, len - 1, len, len + 1, len + 2, len + 9, len + 20,
            len + 40, len + 70, len + 130, len + 270, len + 530, len + 600} : n >= 0}

\* <<src, alignment of dst>>
CpyPlaces ==
    {<<PageEnd + 64, 0>>, <<PageEnd + 69, 5>>, <<PageEnd + 83, 33>>,
     <<PageEnd - 10, 7>>, <<PageEnd - 40, 0>>, <<PageEnd - 1, 21>>}

StrcpyCall(f, len, n, pl) ==
    [fn |-> f, len |-> len, size |-> n, src |-> pl[1],
     dst |-> RoundUp(pl[1] + len + 6 * ZMM_SZ, ZMM_SZ) + 2 * ZMM_SZ + pl[2]]

StrcpyMem(c) ==
    <<>> \o [i \in 1..(c.dst + Max(c.len + 1, c.size) + 6 * ZMM_SZ) |->
               LET a == i - 1
                   s == 1 + ((37 * (a - c.src) + 11) % 254)
                   j == (11 * a + 5) % 256
               IN IF a >= c.dst - ZMM_SZ THEN 35
                  ELSE IF a = c.src + c.len THEN 0
                  ELSE IF a >= c.src /\ a < c.src + c.len THEN (IF s = 35 THEN 255 ELSE s)
                  ELSE IF j = 35 THEN 36 ELSE j]

InitStrcpy ==
    /\ \E f \in {"strcpy_avx2", "strcpy_avx512"}, len \in CpyLens, pl \in CpyPlaces :
           call = StrcpyCall(f, len, 0, pl)
    /\ mem = StrcpyMem(call)
    /\ ret = 0
    /\ pc = "ready"

InitStrncpy ==
    /\ \E len \in NCpyLens : \E n \in NCpySizes(len) :
       \E f \in {"strncpy_avx2", "strncpy_avx512"}, pl \in CpyPlaces :
           call = StrcpyCall(f, len, n, pl)
    /\ mem = StrcpyMem(call)
    /\ ret = 0
    /\ pc = "ready"

Call_strcpy_avx2 ==
    /\ pc = "ready"
    /\ call.fn = "strcpy_avx2"
    /\ mem' = strcpy_vec(mem, call.dst, call.src, 0, FALSE, YMM_SZ)
    /\ ret' = call.dst
    /\ pc' = "done"
    /\ UNCHANGED call

Call_strcpy_avx512 ==
    /\ pc = "ready"
    /\ call.fn = "strcpy_avx512"
    /\ mem' = strcpy_vec(mem, call.dst, call.src, 0, FALSE, ZMM_SZ)
    /\ ret' = call.dst
    /\ pc' = "done"
    /\ UNCHANGED call

Call_strncpy_avx2 ==
    /\ pc = "ready"
    /\ call.fn = "strncpy_avx2"
    /\ mem' = strcpy_vec(mem, call.dst, call.src, call.size, TRUE, YMM_SZ)
    /\ ret' = call.dst
    /\ pc' = "done"
    /\ UNCHANGED call

Call_strncpy_avx512 ==
    /\ pc = "ready"
    /\ call.fn = "strncpy_avx512"
    /\ mem' = strcpy_vec(mem, call.dst, call.src, call.size, TRUE, ZMM_SZ)
    /\ ret' = call.dst
    /\ pc' = "done"
    /\ UNCHANGED call

NextStrcpy == Call_strcpy_avx2 \/ Call_strcpy_avx512

NextStrncpy == Call_strncpy_avx2 \/ Call_strncpy_avx512

SpecStrcpy == InitStrcpy /\ [][NextStrcpy]_vars

SpecStrncpy == InitStrncpy /\ [][NextStrncpy]_vars

\* C9: after _strcpy_avx2 / _strcpy_avx512 the bytes dst[0..L] are src[0..L],
\* the terminator included, every other byte of memory is what it was before
\* the call (nothing behind dst+L is written), and dst is returned.
C9_StrcpyCopies ==
    (pc = "done" /\ call.fn \in {"strcpy_avx2", "strcpy_avx512"}) =>
        /\ ret = call.dst
        /\ mem = Store(StrcpyMem(call), call.dst,
                       Load(StrcpyMem(call), call.src, call.len + 1))

C9_Witness ==
    /\ pc = "done" /\ call.fn = "strcpy_avx512"
    /\ call.len > 8 * ZMM_SZ
    /\ (PAGE_SZ - ZMM_SZ) < PageOff(call.src)
    /\ mem[call.src + call.len + 2] \notin {0, 35}
    /\ mem[call.dst + call.len] # 35 /\ mem[call.dst + call.len + 1] = 0
    /\ mem[call.dst + call.len + 2] = 35
    /\ ret = call.dst

\* C10: after _strncpy_avx2 / _strncpy_avx512 with L the index of the first NUL
\* of src, dst[i] = src[i] for i < min(n, L), dst[i] = 0 for L <= i < n, every
\* other byte of memory is what it was before the call (nothing at an index
\* >= n is written, nothing at all for n = 0), and dst is returned.
C10_StrncpyCopies ==
    (pc = "done" /\ call.fn \in {"strncpy_avx2", "strncpy_avx512"}) =>
        LET k == IF call.size < call.len THEN call.size ELSE call.len
        IN /\ ret = call.dst
           /\ mem = Store(StrcpyMem(call), call.dst,
                          Load(StrcpyMem(call), call.src, k) \o Zero(call.size - k))

C10_Witness ==
    /\ pc = "done" /\ call.fn = "strncpy_avx2"
    /\ call.len >= 1 /\ call.size > call.len + 8 * YMM_SZ
    /\ mem[call.dst + 1] = mem[call.src + 1]
    /\ \A i \in call.len..(call.size - 1) : mem[call.dst + i + 1] = 0
    /\ mem[call.dst + call.size + 1] = 35
    /\ ret = call.dst

(***************************************************************************)
(* memchr (isa/avx512/optimized/memchr_avx512.c).  The kernel is a record: *)
(* ret, the pointer it returns (-1 for NULL), and loads, the ranges        *)
(* <<first, behind last>> of the addresses its loads touch.                *)
(***************************************************************************)
\* the four vectors taken for one: the first match is counted from the first
memchr_4zmm_any(m, a, val, o, loads) ==
    LET c(i) == EqByteMask(Load(m, a + o[i], ZMM_SZ), val % 256)
        match3 == c(1) \cup c(2) \cup c(3) \cup c(4)
    IN [ret |-> IF match3 # {} THEN a + Tzcnt(match3, ZMM_SZ) + o[1] ELSE -1,
        loads |-> loads \cup {<<a + o[i], a + o[i] + ZMM_SZ>> : i \in 1..4},
        offset |-> o[1]]

\* four vectors at the offsets o: the loads, and the first match of the four
memchr_4zmm(m, a, val, o, loads) ==
    LET c(i) == EqByteMask(Load(m, a + o[i], ZMM_SZ), val % 256)
        match == c(1)
        match1 == match \cup c(2)
        match2 == match1 \cup c(3)
        match3 == match2 \cup c(4)
        index == IF match # {} THEN Tzcnt(match, ZMM_SZ) + o[1]
                 ELSE IF match1 # {} THEN Tzcnt(match1, ZMM_SZ) + o[2]
                 ELSE IF match2 # {} THEN Tzcnt(match2, ZMM_SZ) + o[3]
                 ELSE Tzcnt(match3, ZMM_SZ) + o[4]
    IN [ret |-> IF match3 # {} THEN a + index ELSE -1,
        loads |-> loads \cup {<<a + o[i], a + o[i] + ZMM_SZ>> : i \in 1..4},
        offset |-> o[1]]

\* lines 168-201: while (size >= offset), size being 4 vectors short of the call's
RECURSIVE memchr_avx512_loop(_, _, _, _, _, _)
memchr_avx512_loop(m, a, val, size, offset, loads) ==
    IF size >= offset
    THEN LET q == memchr_4zmm(m, a, val,
                      <<offset, offset + ZMM_SZ, offset + 2 * ZMM_SZ, offset + 3 * ZMM_SZ>>,
                      loads)
         IN IF q.ret # -1 THEN q
            ELSE memchr_avx512_loop(m, a, val, size, offset + 4 * ZMM_SZ, q.loads)
    ELSE [ret |-> -1, loads |-> loads, offset |-> offset]

\* _memchr_avx512
memchr_avx512(m, a, val, size) ==
    LET z0 == val % 256
        small == {j \in EqByteMask(Load(m, a, size), z0) : j < size}
        c1 == EqByteMask(Load(m, a, ZMM_SZ), z0)
        c2 == EqByteMask(Load(m, a + size - ZMM_SZ, ZMM_SZ), z0)
        head == memchr_4zmm(m, a, val, <<0, ZMM_SZ, 2 * ZMM_SZ, 3 * ZMM_SZ>>, {})
        loop == IF size > 8 * ZMM_SZ
                THEN memchr_avx512_loop(m, a, val, size - 4 * ZMM_SZ,
                                        4 * ZMM_SZ - (PageOff(a) % ZMM_SZ), head.loads)
                ELSE [ret |-> -1, loads |-> head.loads, offset |-> -1]
    IN IF size <= ZMM_SZ
       THEN [ret |-> IF small = {} THEN -1 ELSE a + Tzcnt(small, ZMM_SZ),
             loads |-> IF size = 0 THEN {} ELSE {<<a, a + size>>}]
       ELSE IF size <= 2 * ZMM_SZ
       THEN IF c1 # {}
            THEN [ret |-> a + Tzcnt(c1, ZMM_SZ), loads |-> {<<a, a + ZMM_SZ>>}]
            ELSE [ret |-> IF c2 = {} THEN -1 ELSE a + (size - ZMM_SZ) + Tzcnt(c2, ZMM_SZ),
                  loads |-> {<<a, a + ZMM_SZ>>, <<a + size - ZMM_SZ, a + size>>}]
       ELSE IF size <= 4 * ZMM_SZ
       THEN LET q == memchr_4zmm(m, a, val,
                         <<0, ZMM_SZ, size - 2 * ZMM_SZ, size - ZMM_SZ>>, {})
            IN [ret |-> q.ret, loads |-> q.loads]
       ELSE IF head.ret # -1 THEN [ret |-> head.ret, loads |-> head.loads]
       ELSE IF loop.ret # -1 \/ size = loop.offset
       THEN [ret |-> loop.ret, loads |-> loop.loads]
       ELSE LET q == memchr_4zmm(m, a, val,
                         <<size - 4 * ZMM_SZ, size - 3 * ZMM_SZ,
                           size - 2 * ZMM_SZ, size - ZMM_SZ>>, loop.loads)
            IN [ret |-> q.ret, loads |-> q.loads]

(***************************************************************************)
(* The calls of memchr: a buffer of size bytes none of which is the value, *)
(* but for the indices in hits; the bytes before the buffer and at index   *)
(* size and behind are the value where out says so.                        *)
(***************************************************************************)
MaxChr == 70

ChrSizes ==
    (0..MaxChr) \cup {127, 128, 129, 130, 191, 192, 193, 255, 256, 257, 258, 300,
                      511, 512, 513, 514, 575, 576, 577, 600, 768, 769, 1030}

\* where the value lies in the buffer: nowhere, or at p, or at p and at the end
ChrHits(n) ==
    {{}} \cup
    UNION {{{p}, {p, n - 1}} :
             p \in {q \in {0, 1, n - 1, n - 2, n \div 2, 63, 64, 65, 127, 128, 129,
                           255, 256, 257, n - 63, n - 64, n - 65, n - 128, n - 129,
                           n - 255, n - 256, n - 257, 300, 512, 520} : q >= 0 /\ q < n}}

MemchrMem(c) ==
    <<>> \o [i \in 1..(c.buf + c.size + 3 * ZMM_SZ) |->
               LET k == i - 1 - c.buf
               IN IF k \in c.hits \/ (c.out /\ k \in {-1, c.size, c.size + 5})
                  THEN c.val % 256
                  ELSE ((c.val % 256) + 1 + (i % 200)) % 256]

InitMemchr ==
    /\ \E n \in ChrSizes : \E h \in ChrHits(n) :
       \E v \in {35, 456}, a \in {PageEnd, PageEnd + 1, PageEnd + 63}, o \in BOOLEAN :
           call = [fn |-> "memchr_avx512", buf |-> a, size |-> n, val |-> v,
                   hits |-> h, out |-> o]
    /\ mem = MemchrMem(call)
    /\ ret = 0
    /\ pc = "ready"

Call_memchr_avx512 ==
    /\ pc = "ready"
    /\ call.fn = "memchr_avx512"
    /\ ret' = memchr_avx512(mem, call.buf, call.val, call.size)
    /\ pc' = "done"
    /\ UNCHANGED <<call, mem>>

NextMemchr == Call_memchr_avx512

SpecMemchr == InitMemchr /\ [][NextMemchr]_vars

\* C11: _memchr_avx512 returns the address of the lowest index i < n with
\* buf[i] = (unsigned char) value, and NULL when there is none (always for
\* n = 0); a byte equal to the value at an index >= n is never reported.
C11_MemchrFirst ==
    (pc = "done" /\ call.fn = "memchr_avx512") =>
        LET found == {i \in 0..(call.size - 1) : mem[call.buf + i + 1] = call.val % 256}
        IN /\ found = {} => ret.ret = -1
           /\ found # {} => /\ ret.ret - call.buf \in found
                            /\ \A i \in found : ret.ret - call.buf <= i

C11_Witness ==
    /\ pc = "done" /\ call.fn = "memchr_avx512"
    /\ call.size > 8 * ZMM_SZ /\ call.out
    /\ mem[call.buf + call.size + 1] = call.val % 256
    /\ call.hits = {call.size - 1}
    /\ PageOff(call.buf) % ZMM_SZ # 0
    /\ ret.ret = call.buf + call.size - 1

(***************************************************************************)
(* The loads of the string compare kernels: the ranges <<string, first     *)
(* address, address behind the last>> that a call reads.  isa is "avx2",   *)
(* "avx512" or "zen4"; w is the vector width of the loops.                 *)
(***************************************************************************)
\* (uintptr_t)a / PAGE_SZ
PageIdx(a) == (a + PageBias) \div PAGE_SZ

\* __strcmp_zen4: the first 64 bytes as _strcmp_avx2 has them, then the loops
\* of _strcmp_avx512
strcmp_zen4(m, str1, str2) ==
    LET offset1 == PageOff(str1) % ZMM_SZ
        offset2 == PageOff(str2) % ZMM_SZ
        offmax == IF offset1 >= offset2 THEN offset1 ELSE offset2
        first == strcmp_avx2_first(m, str1, str2, 0, FALSE, offmax)
        offset == ZMM_SZ - offmax
        str1_aligned == (PageOff(str1 + offset) % ZMM_SZ) = 0
        al == IF str1_aligned THEN str1 ELSE str2
        un == IF str1_aligned THEN str2 ELSE str1
        vecs_in_page == (PAGE_SZ - PageOff(un + offset)) \div ZMM_SZ
    IN IF first.done THEN first.ret
       ELSE IF offset1 = offset2
       THEN str_aligned_loop(m, str1, str2, 0, FALSE, offset, ZMM_SZ)
       ELSE strcmp_avx512_unaligned(m, str1, str2, 0, FALSE, al, un, offset, vecs_in_page)

\* the vectors that scan_vecs loads from offset on to reach r
scan_loads(a1, a2, offset, r, w) ==
    LET last == IF r.hit THEN r.at - ((r.at - offset) % w) ELSE r.at - w
    IN {<<a, a + o, a + o + w>> :
          a \in {a1, a2}, o \in {x \in offset..last : (x - offset) % w = 0}}

\* the chunks that _strcmp_ble_ymm loads at a1 + o and a2 + o
strcmp_ble_loads(m, a1, a2, o, size) ==
    LET k == IF size = 1 THEN 1 ELSE IF size <= 2 * 2 THEN 2 ELSE IF size <= 2 * 4 THEN 4
             ELSE IF size <= 2 * 8 THEN 8 ELSE 16
        cmp_idx == (size - k) % 256
        at(x) == {<<a1, a1 + x, a1 + x + k>>, <<a2, a2 + x, a2 + x + k>>}
    IN IF size > 2 * 16 THEN {}
       ELSE IF size = 1 \/ stop_avx2(Load(m, a1 + o, k), Load(m, a2 + o, k)) # {}
       THEN at(o)
       ELSE at(o) \cup at(o + cmp_idx)

\* the loops over four and over one aligned vector (four = FALSE: the latter)
RECURSIVE str_aligned_loads(_, _, _, _, _, _, _, _, _)
str_aligned_loads(m, str1, str2, size, N, offset, w, four, loads) ==
    LET in4 == four /\ ((~N) \/ offset < USub(size, 4 * w))
        r == scan_vecs(m, str1, str2, offset, IF in4 THEN 4 ELSE 1, w)
        ld == loads \cup scan_loads(str1, str2, offset, r, w)
    IN IF r.hit \/ (N /\ size <= r.at) THEN ld
       ELSE str_aligned_loads(m, str1, str2, size, N, r.at, w, in4, ld)

\* the loops over strings of different alignment: phase "four" is the loop
\* over four vectors, "one" while (vecs_in_page--), "cross" the bytes up to the
\* end of the page of the unaligned string
RECURSIVE str_unaligned_loads(_, _, _, _, _, _, _, _, _, _)
str_unaligned_loads(m, al, un, size, N, offset, vip, w, phase, loads) ==
    LET r4 == scan_vecs(m, al, un, offset, 4, w)
        r1 == scan_vecs(m, al, un, offset, 1, w)
        k == w - (PageOff(un + offset) % w)
        cross == IF w = ZMM_SZ
                 THEN {<<al, al + offset, al + offset + k>>,
                       <<un, un + offset, un + offset + k>>}
                 ELSE strcmp_ble_loads(m, al, un, offset, k)
        stop == IF w = ZMM_SZ
                THEN strcmp_avx512_masked(m, al + offset, un + offset, k) # {}
                ELSE strcmp_ble_ymm(m, al + offset, un + offset, k) # YMM_SZ
    IN IF phase = "four"
       THEN IF vip >= 4 /\ (N => offset < USub(size, 4 * w))
            THEN IF r4.hit THEN loads \cup scan_loads(al, un, offset, r4, w)
                 ELSE str_unaligned_loads(m, al, un, size, N, r4.at, vip - 4, w, "four",
                                          loads \cup scan_loads(al, un, offset, r4, w))
            ELSE IF w = ZMM_SZ /\ N /\ size <= offset THEN loads
            ELSE str_unaligned_loads(m, al, un, size, N, offset, vip, w, "one", loads)
       ELSE IF phase = "one"
       THEN IF vip # 0
            THEN IF r1.hit \/ (N /\ size <= r1.at)
                 THEN loads \cup scan_loads(al, un, offset, r1, w)
                 ELSE str_unaligned_loads(m, al, un, size, N, r1.at, vip - 1, w, "one",
                                          loads \cup scan_loads(al, un, offset, r1, w))
            ELSE str_unaligned_loads(m, al, un, size, N, offset, (vip - 1) % 65536, w,
                                     "cross", loads)
       ELSE IF stop \/ (N /\ size <= offset + k) THEN loads \cup cross
       ELSE str_unaligned_loads(m, al, un, size, N, offset,
                                (vip + (PAGE_SZ \div w)) % 65536, w, "four",
                                loads \cup cross)

\* every load of _strcmp_avx2 / _strncmp_avx2 (isa = "avx2"), _strcmp_avx512 /
\* _strncmp_avx512 ("avx512") and __strcmp_zen4 ("zen4")
strcmp_loads(m, str1, str2, size, N, isa) ==
    LET w == IF isa = "avx2" THEN YMM_SZ ELSE ZMM_SZ
        offset1 == PageOff(str1) % ZMM_SZ
        offset2 == PageOff(str2) % ZMM_SZ
        offmax == IF offset1 >= offset2 THEN offset1 ELSE offset2
        near == (PAGE_SZ - ZMM_SZ) < BitOr(PageOff(str1), PageOff(str2))
        both(o, k) == {<<str1, str1 + o, str1 + o + k>>, <<str2, str2 + o, str2 + o + k>>}
        r1 == scan_vecs(m, str1, str2, 0, 1, YMM_SZ)
        first2 == IF near
                  THEN IF offmax < YMM_SZ
                       THEN both(0, YMM_SZ) \cup
                            (IF r1.hit \/ (N /\ size <= YMM_SZ - offmax) THEN {}
                             ELSE strcmp_ble_loads(m, str1, str2, YMM_SZ, YMM_SZ - offmax))
                       ELSE strcmp_ble_loads(m, str1, str2, 0, 2 * YMM_SZ - offmax)
                  ELSE both(0, YMM_SZ) \cup
                       (IF r1.hit \/ (N /\ size <= YMM_SZ) THEN {}
                        ELSE both(YMM_SZ, YMM_SZ))
        stop5 == IF near THEN strcmp_avx512_masked(m, str1, str2, ZMM_SZ - offmax)
                 ELSE stop_avx512(Load(m, str1, ZMM_SZ), Load(m, str2, ZMM_SZ))
        k5 == IF near THEN ZMM_SZ - offmax ELSE ZMM_SZ
        first == IF isa = "avx512" THEN both(0, k5) ELSE first2
        done == IF isa = "avx512" THEN stop5 # {} \/ (N /\ size <= k5)
                ELSE strcmp_avx2_first(m, str1, str2, size, N, offmax).done
        offset == ZMM_SZ - offmax
        str1_aligned == (PageOff(str1 + offset) % ZMM_SZ) = 0
        al == IF str1_aligned THEN str1 ELSE str2
        un == IF str1_aligned THEN str2 ELSE str1
        vecs_in_page == (PAGE_SZ - PageOff(un + offset)) \div w
    IN IF N /\ size = 0 THEN {}
       ELSE IF done THEN first
       ELSE IF offset1 = offset2
       THEN str_aligned_loads(m, str1, str2, size, N, offset, w, TRUE, first)
       ELSE str_unaligned_loads(m, al, un, size, N, offset, vecs_in_page, w, "four", first)

(***************************************************************************)
(* Calls of strcmp on strings that run over pages: the lower string ends   *)
(* at or shortly before the end of a page, the upper one has the same      *)
(* len bytes up to index d.                                                *)
(***************************************************************************)
PageStrMem(c) ==
    <<>> \o [i \in 1..(Max(c.str1, c.str2) + c.len + 1 + 6 * ZMM_SZ) |->
               LET i1 == i - 1 - c.str1
                   i2 == i - 1 - c.str2
                   pat(j) == 1 + ((7 * j + 3) % 127)
               IN IF i1 >= 0 /\ i1 <= c.len THEN (IF i1 = c.len THEN 0 ELSE pat(i1))
                  ELSE IF i2 >= 0 /\ i2 <= c.len
                  THEN (IF i2 = c.len THEN 0
                        ELSE IF i2 = c.d THEN (pat(i2) % 127) + 1 ELSE pat(i2))
                  ELSE (11 * i + 5) % 256]

\* the address of the terminator of the lower string: j bytes before the end of
\* the first and of the second page, and inside the second page
PageStrEnds ==
    {PageEnd - 1, PageEnd + 60, PageEnd + 300} \cup
    {PageEnd + PAGE_SZ - 1 - j : j \in {0, 5, 20, 28, 31, 40, 63, 64, 100, 200}}

InitStrcmpPage ==
    /\ \E f \in {"strcmp_avx2", "strcmp_avx512", "strcmp_zen4"},
          lo \in {PageEnd - 106, PageEnd - 56, PageEnd + 8}, e \in PageStrEnds,
          ua \in {3, 8, 37, 40}, df \in {0, 3}, swap \in BOOLEAN :
           /\ lo < e
           /\ call = [fn |-> f, len |-> e - lo, d |-> Max(0, e - lo - df), size |-> 0,
                      str1 |-> IF swap THEN RoundUp(e + 4 * ZMM_SZ, ZMM_SZ) + ua ELSE lo,
                      str2 |-> IF swap THEN lo ELSE RoundUp(e + 4 * ZMM_SZ, ZMM_SZ) + ua]
    /\ mem = PageStrMem(call)
    /\ ret = 0
    /\ pc = "ready"

Page_strcmp_avx2 ==
    /\ pc = "ready"
    /\ call.fn = "strcmp_avx2"
    /\ ret' = [ret |-> strcmp_avx2(mem, call.str1, call.str2, 0, FALSE),
               loads |-> strcmp_loads(mem, call.str1, call.str2, 0, FALSE, "avx2")]
    /\ pc' = "done"
    /\ UNCHANGED <<call, mem>>

Page_strcmp_avx512 ==
    /\ pc = "ready"
    /\ call.fn = "strcmp_avx512"
    /\ ret' = [ret |-> strcmp_avx512(mem, call.str1, call.str2, 0, FALSE),
               loads |-> strcmp_loads(mem, call.str1, call.str2, 0, FALSE, "avx512")]
    /\ pc' = "done"
    /\ UNCHANGED <<call, mem>>

Page_strcmp_zen4 ==
    /\ pc = "ready"
    /\ call.fn = "strcmp_zen4"
    /\ ret' = [ret |-> strcmp_zen4(mem, call.str1, call.str2),
               loads |-> strcmp_loads(mem, call.str1, call.str2, 0, FALSE, "zen4")]
    /\ pc' = "done"
    /\ UNCHANGED <<call, mem>>

NextStrcmpPage == Page_strcmp_avx2 \/ Page_strcmp_avx512 \/ Page_strcmp_zen4

SpecStrcmpPage == InitStrcmpPage /\ [][NextStrcmpPage]_vars

\* the index of the first stop of the call: the first difference, or the
\* terminator
PageStrStop == IF call.d < call.len THEN call.d ELSE call.len

\* C12: every load that _strcmp_avx2, _strcmp_avx512 and __strcmp_zen4 issue on
\* a string touches only pages that hold a byte of that string up to the first
\* stop index t: no load reaches into the page behind the one of byte t.
C12_StrcmpLoadsInPages ==
    (pc = "done" /\ call.fn \in {"strcmp_avx2", "strcmp_avx512", "strcmp_zen4"}) =>
        \A l \in ret.loads :
            /\ PageIdx(l[2]) >= PageIdx(l[1])
            /\ PageIdx(l[3] - 1) <= PageIdx(l[1] + PageStrStop)

C12_Witness ==
    /\ pc = "done" /\ call.fn = "strcmp_avx512"
    /\ call.d = call.len /\ ret.ret = 0
    /\ PageIdx(call.str2) = 0 /\ PageIdx(call.str2 + call.len) = 1
    /\ PageOff(call.str2 + call.len) > PAGE_SZ - 20
    /\ PageOff(call.str1) % ZMM_SZ > PageOff(call.str2) % ZMM_SZ
    /\ \E l \in ret.loads : l[1] = call.str2 /\ PageIdx(l[3] - 1) = 2

(***************************************************************************)
(* Calls of strncmp on equal strings with no terminator in their first n   *)
(* bytes, byte n - 1 of the string at anch being the last byte of a page.  *)
(***************************************************************************)
PageSizesN ==
    {1, 2, 5, 31, 32, 33, 60, 64, 65, 70, 100, 128, 190, 200, 255, 256, 257, 300, 320,
     400, 600}

InitStrncmpPage ==
    /\ \E f \in {"strncmp_avx2", "strncmp_avx512"}, n \in PageSizesN, more \in {0, 70},
          da \in {0, 5, 32, 37}, swap \in BOOLEAN :
           LET a == PageEnd + PAGE_SZ - n
               b == ZMM_SZ + ((a + da) % ZMM_SZ)
           IN call = [fn |-> f, len |-> n + more, d |-> n + more, size |-> n, anch |-> a,
                      str1 |-> IF swap THEN b ELSE a, str2 |-> IF swap THEN a ELSE b]
    /\ mem = PageStrMem(call)
    /\ ret = 0
    /\ pc = "ready"

Page_strncmp_avx2 ==
    /\ pc = "ready"
    /\ call.fn = "strncmp_avx2"
    /\ ret' = [ret |-> strcmp_avx2(mem, call.str1, call.str2, call.size, TRUE),
               loads |-> strcmp_loads(mem, call.str1, call.str2, call.size, TRUE, "avx2")]
    /\ pc' = "done"
    /\ UNCHANGED <<call, mem>>

Page_strncmp_avx512 ==
    /\ pc = "ready"
    /\ call.fn = "strncmp_avx512"
    /\ ret' = [ret |-> strcmp_avx512(mem, call.str1, call.str2, call.size, TRUE),
               loads |-> strcmp_loads(mem, call.str1, call.str2, call.size, TRUE, "avx512")]
    /\ pc' = "done"
    /\ UNCHANGED <<call, mem>>

NextStrncmpPage == Page_strncmp_avx2 \/ Page_strncmp_avx512

SpecStrncmpPage == InitStrncmpPage /\ [][NextStrncmpPage]_vars

\* C13: when _strncmp_avx2 / _strncmp_avx512 compare n >= 1 bytes of equal
\* strings without a terminator in them, and byte n - 1 of a string is the last
\* byte of its page, no load of that string touches the next page.
C13_StrncmpLoadsInPage ==
    (pc = "done" /\ call.fn \in {"strncmp_avx2", "strncmp_avx512"}) =>
        \A l \in ret.loads : l[1] = call.anch => l[3] <= call.anch + call.size

C13_Witness ==
    /\ pc = "done" /\ call.fn = "strncmp_avx512"
    /\ call.size = 100 /\ call.len = 170 /\ ret.ret = 0
    /\ PageOff(call.anch + call.size) = 0
    /\ PageOff(call.str1) % ZMM_SZ = PageOff(call.str2) % ZMM_SZ
    /\ \E l \in ret.loads : l[1] = call.anch /\ l[2] = call.anch + call.size

(***************************************************************************)
(* The loads of the string copy kernels from src: the ranges <<first       *)
(* address, address behind the last>>.  The bytes that strcpy_ble_ymm      *)
(* reads lie inside the vector loaded before it is called.                 *)
(***************************************************************************)
\* the loops over one vector, as str_vec_loop takes them
RECURSIVE str_vec_loads(_, _, _, _, _, _, _, _, _)
str_vec_loads(m, src, size, N, offset, cnt, w, tail, loads) ==
    LET match == EqByteMask(Load(m, src + offset, w), 0)
        index == offset + Tzcnt(match, w) - w + 1
        ld == loads \cup {<<src + offset, src + offset + w>>}
    IN IF cnt = 0 \/ (N /\ offset >= size)
       THEN [loads |-> loads, offset |-> offset, at |-> "next"]
       ELSE IF match # {}
       THEN [loads |-> IF (~N) /\ tail = "overlap"
                       THEN ld \cup {<<src + index, src + index + w>>} ELSE ld,
             offset |-> offset, at |-> "return"]
       ELSE IF N /\ size - offset < w /\ w = YMM_SZ
       THEN [loads |-> ld, offset |-> offset + w, at |-> "return"]
       ELSE str_vec_loads(m, src, size, N, offset + w, cnt - 1, w, tail, ld)

\* the first vector read from src with no look at the end of the page
strcpy_loads_first(m, src, size, N, w) == {<<src, src + w>>}

\* every load from src of _strcpy_avx2 / _strncpy_avx2 (w = YMM_SZ) and of
\* _strcpy_avx512 / _strncpy_avx512 (w = ZMM_SZ)
strcpy_loads(m, src, size, N, w) ==
    LET off == PageOff(src) % w
        near == (PAGE_SZ - w) < PageOff(src)
        nearload == IF w = YMM_SZ THEN <<src - off, src - off + w>>
                    ELSE <<src, src + w - off>>
        nearhit == near /\ EqByteMask(Load(m, src, w - off), 0) # {}
        first == (IF near THEN {nearload} ELSE {}) \cup
                 (IF nearhit THEN {} ELSE {<<src, src + w>>})
        firsthit == nearhit \/ EqByteMask(Load(m, src, w), 0) # {}
        l1 == str_vec_loads(m, src, size, N, w - off, IF w = YMM_SZ THEN 6 ELSE 3, w,
                            "overlap", first)
        cnt_vec == 4 - ((PageOff(src + l1.offset) % (4 * w)) \div w)
        l2 == str_vec_loads(m, src, size, N, l1.offset, cnt_vec, w,
                            IF w = YMM_SZ THEN "overlap" ELSE "masked", l1.loads)
        RECURSIVE main(_, _)
        main(offset, loads) ==
            IF N /\ offset + 4 * w > size THEN [loads |-> loads, offset |-> offset]
            ELSE LET ld == loads \cup {<<src + offset, src + offset + 4 * w>>}
                 IN IF EqByteMask(Load(m, src + offset, 4 * w), 0) # {}
                    THEN [loads |-> ld, offset |-> offset]
                    ELSE main(offset + 4 * w, ld)
        l3 == main(l2.offset, l2.loads)
        index == l3.offset + Tzcnt(EqByteMask(Load(m, src + l3.offset, 4 * w), 0), 4 * w)
                 - w + 1
        RECURSIVE remaining(_, _)
        remaining(offset, loads) ==
            LET rem == size - offset
                block == IF rem >= w THEN w ELSE rem
                ld == loads \cup {<<src + offset,
                                    src + offset + (IF w = YMM_SZ THEN w ELSE block)>>}
            IN IF offset >= size THEN loads
               ELSE IF EqByteMask(Load(m, src + offset, block), 0) # {} THEN ld
               ELSE remaining(offset + (IF w = YMM_SZ THEN block ELSE w), ld)
    IN IF N /\ size = 0 THEN {}
       ELSE IF firsthit \/ (N /\ w = YMM_SZ /\ size < YMM_SZ) THEN first
       ELSE IF l1.at = "return" THEN l1.loads
       ELSE IF l2.at = "return" THEN l2.loads
       ELSE IF N THEN remaining(l3.offset, l3.loads)
       ELSE l3.loads \cup {<<src + index, src + index + w>>}

(***************************************************************************)
(* Calls of the string copy kernels on a src that ends at, or lies         *)
(* shortly before, the end of a page.                                      *)
(***************************************************************************)
\* how far before the end of its page the terminator of src lies
PageGaps == {0, 1, 5, 31, 32, 40, 63, 64}

PageCpyLens ==
    {0, 1, 5, 20, 31, 32, 33, 60, 64, 65, 100, 130, 200, 250, 300, 500, 700, 1000, 4100, 4200}

InitStrcpyPage ==
    /\ \E f \in {"strcpy_avx2", "strcpy_avx512"}, pg \in {0, 1}, j \in PageGaps,
          len \in PageCpyLens :
           /\ len <= PageEnd + pg * PAGE_SZ - 1 - j
           /\ call = StrcpyCall(f, len, 0, <<PageEnd + pg * PAGE_SZ - 1 - j - len, 5>>)
    /\ mem = StrcpyMem(call)
    /\ ret = 0
    /\ pc = "ready"

SpecStrcpyPage == InitStrcpyPage /\ [][NextStrcpy]_vars

\* src starts r bytes before the end of a page
InitStrncpyPage ==
    /\ \E f \in {"strncpy_avx2", "strncpy_avx512"},
          r \in {1, 5, 20, 31, 32, 33, 40, 63, 64, 65, 100, 200} :
       \E n \in {k \in {1, r \div 2, r - 1, r, r + 1, r + 70} : k >= 1} :
       \E len \in {k \in {0, n - 1, r - 1, r, r + 100} : k >= 0} :
           call = StrcpyCall(f, len, n, <<PageEnd - r, 5>>)
    /\ mem = StrcpyMem(call)
    /\ ret = 0
    /\ pc = "ready"

SpecStrncpyPage == InitStrncpyPage /\ [][NextStrncpy]_vars

\* the loads of the call just made, taken on the memory it was made on
CpyLoads ==
    strcpy_loads(StrcpyMem(call), call.src, call.size,
                 call.fn \in {"strncpy_avx2", "strncpy_avx512"},
                 IF call.fn \in {"strcpy_avx2", "strncpy_avx2"} THEN YMM_SZ ELSE ZMM_SZ)

\* C14: with m = min(n - 1, index of the first NUL of src), every load from src
\* of _strncpy_avx2 / _strncpy_avx512 (n >= 1) touches only pages that hold a
\* byte of src[0..m].
C14_StrncpyLoadsInPages ==
    (pc = "done" /\ call.fn \in {"strncpy_avx2", "strncpy_avx512"} /\ call.size >= 1) =>
        \A l \in CpyLoads :
            /\ PageIdx(l[1]) >= PageIdx(call.src)
            /\ PageIdx(l[2] - 1) <= PageIdx(call.src + Min(call.size - 1, call.len))

C14_Witness ==
    /\ pc = "done" /\ call.fn = "strncpy_avx512"
    /\ (PAGE_SZ - ZMM_SZ) < PageOff(call.src)
    /\ PageIdx(call.src + call.size - 1) = PageIdx(call.src)
    /\ call.len >= call.size
    /\ ret = call.dst
    /\ Load(mem, call.dst, call.size) = Load(mem, call.src, call.size)
    /\ <<call.src, call.src + ZMM_SZ>> \in CpyLoads

\* C16: every load from src of _strcpy_avx2 / _strcpy_avx512 touches only pages
\* that hold a byte of src[0..L], the first-block load, the single-vector
\* steps, the loop over four vectors and the tail load alike.
C16_StrcpyLoadsInPages ==
    (pc = "done" /\ call.fn \in {"strcpy_avx2", "strcpy_avx512"}) =>
        \A l \in CpyLoads :
            /\ PageIdx(l[1]) >= PageIdx(call.src)
            /\ PageIdx(l[2] - 1) <= PageIdx(call.src + call.len)

C16_Witness ==
    /\ pc = "done" /\ call.fn = "strcpy_avx2"
    /\ PageOff(call.src + call.len) = PAGE_SZ - 1
    /\ call.len > 16 * YMM_SZ
    /\ PageIdx(call.src) < PageIdx(call.src + call.len)
    /\ ret = call.dst /\ mem[call.dst + call.len + 1] = 0
    /\ <<call.src + call.len + 1 - YMM_SZ, call.src + call.len + 1>> \in CpyLoads

(***************************************************************************)
(* The loads of the strstr kernels: <<string, first address, address       *)
(* behind the last>>, the string being "haystack" or "needle".  The loads  *)
(* of the strlen and strchr kernels they call are not among them.          *)
(***************************************************************************)
\* _strstr_avx512 with cmp_needle_avx512, cmp_needle_page_safe and
\* cmp_needle_page_cross
strstr_avx512_loads(m, haystack, needle) ==
    LET needle_len == str_len(m, needle)
        pair(s1, s2, off, k) ==
            {<<"haystack", s1 + off, s1 + off + k>>, <<"needle", s2 + off, s2 + off + k>>}
        eq(s1, s2, off, k) == Load(m, s1 + off, k) = Load(m, s2 + off, k)
        safe(s1, s2, size) ==
            LET blocks == size \div (4 * ZMM_SZ)
                bad == Tzcnt({b \in 0..(blocks - 1) :
                                ~eq(s1, s2, b * 4 * ZMM_SZ, 4 * ZMM_SZ)}, blocks)
                offset == blocks * 4 * ZMM_SZ
                left_out == size - offset
            IN IF size <= ZMM_SZ THEN pair(s1, s2, 0, size)
               ELSE IF size <= 2 * ZMM_SZ
               THEN pair(s1, s2, 0, ZMM_SZ) \cup
                    (IF eq(s1, s2, 0, ZMM_SZ) THEN pair(s1, s2, size - ZMM_SZ, ZMM_SZ)
                     ELSE {})
               ELSE IF size <= 4 * ZMM_SZ
               THEN pair(s1, s2, 0, 2 * ZMM_SZ) \cup
                    pair(s1, s2, size - 2 * ZMM_SZ, 2 * ZMM_SZ)
               ELSE UNION {pair(s1, s2, b * 4 * ZMM_SZ, 4 * ZMM_SZ) :
                             b \in {c \in 0..(blocks - 1) : c <= bad}} \cup
                    (IF bad < blocks \/ left_out = 0 THEN {}
                     ELSE IF left_out <= ZMM_SZ THEN pair(s1, s2, offset, left_out)
                     ELSE IF left_out <= 2 * ZMM_SZ
                     THEN pair(s1, s2, offset, ZMM_SZ) \cup
                          (IF eq(s1, s2, offset, ZMM_SZ)
                           THEN pair(s1, s2, size - ZMM_SZ, ZMM_SZ) ELSE {})
                     ELSE pair(s1, s2, offset, 2 * ZMM_SZ) \cup
                          pair(s1, s2, size - 2 * ZMM_SZ, 2 * ZMM_SZ))
        RECURSIVE cross(_, _, _, _)
        cross(s1, s2, size, safe_bytes) ==
            LET d == Tzcnt({i \in 0..(safe_bytes - 1) : m[s1 + i + 1] # m[s2 + i + 1]},
                           safe_bytes)
                tail == size - safe_bytes
                tail_offset1 == PAGE_SZ - PageOff(s1 + safe_bytes)
                tail_offset2 == PAGE_SZ - PageOff(s2 + safe_bytes)
                tail_safe_bytes == Min(tail_offset1, tail_offset2)
            IN UNION {pair(s1, s2, j * ZMM_SZ, Min(ZMM_SZ, safe_bytes - j * ZMM_SZ)) :
                        j \in {c \in 0..(safe_bytes \div ZMM_SZ) :
                                 c * ZMM_SZ < safe_bytes /\ c * ZMM_SZ <= d}} \cup
               (IF d < safe_bytes \/ tail <= 0 THEN {}
                ELSE IF tail_safe_bytes >= tail
                THEN safe(s1 + safe_bytes, s2 + safe_bytes, tail)
                ELSE cross(s1 + safe_bytes, s2 + safe_bytes, tail, tail_safe_bytes))
        cmp(pos) ==
            LET safe_bytes == Min(PAGE_SZ - PageOff(haystack + pos), PAGE_SZ - PageOff(needle))
            IN IF safe_bytes >= needle_len THEN safe(haystack + pos, needle, needle_len)
               ELSE cross(haystack + pos, needle, needle_len, safe_bytes)
        near_last(pos) == SamePage(haystack + pos, haystack + pos + needle_len - 1)
        last_eq(pos) == last_char_probe(m, haystack, needle, needle_len, pos)
        cand(pos) ==
            (IF near_last(pos)
             THEN {<<"haystack", haystack + pos + needle_len - 1, haystack + pos + needle_len>>}
             ELSE {}) \cup
            (IF near_last(pos) => last_eq(pos) THEN cmp(pos) ELSE {})
        ok(pos) == /\ near_last(pos) => last_eq(pos)
                   /\ cmp_needle_avx512(m, haystack, needle, pos, needle_len) = 0
        proc(cset, base) ==
            LET first == Tzcnt({i \in cset : ok(base + i)}, ZMM_SZ)
            IN [hit |-> first < ZMM_SZ,
                loads |-> UNION {cand(base + i) : i \in {j \in cset : j <= first}}]
        RECURSIVE loop(_, _)
        loop(offset, loads) ==
            LET z1 == Load(m, haystack + offset, ZMM_SZ)
                null_mask == EqByteMask(z1, 0)
                null_idx == Tzcnt(null_mask, ZMM_SZ)
                match_mask == EqByteMask(z1, m[needle + 1])
                r == proc(IF null_mask # {}
                          THEN {i \in match_mask :
                                  i <= null_idx /\ i + needle_len <= null_idx + 1}
                          ELSE match_mask, offset)
                ld == loads \cup {<<"haystack", haystack + offset, haystack + offset + ZMM_SZ>>}
                      \cup r.loads
            IN IF null_mask # {} \/ r.hit THEN ld ELSE loop(offset + ZMM_SZ, ld)
        offset == PageOff(haystack) % ZMM_SZ
        near == (PAGE_SZ - ZMM_SZ) < PageOff(haystack)
        z1 == IF near THEN MaskLoadu(Ones512, ZMM_SZ - offset, m, haystack)
              ELSE Load(m, haystack, ZMM_SZ)
        null_mask == EqByteMask(z1, 0)
        null_idx == Tzcnt(null_mask, ZMM_SZ)
        match_mask == EqByteMask(z1, m[needle + 1])
        r == proc(IF null_mask # {} THEN {i \in match_mask : i <= null_idx} ELSE match_mask, 0)
        first == {<<"needle", needle, needle + 1>>, <<"haystack", haystack, haystack + 1>>,
                  <<"needle", needle + 1, needle + 2>>,
                  <<"needle", needle + needle_len - 1, needle + needle_len>>,
                  <<"haystack", haystack,
                    haystack + (IF near THEN ZMM_SZ - offset ELSE ZMM_SZ)>>}
    IN IF m[needle + 1] = 0 THEN {<<"needle", needle, needle + 1>>}
       ELSE IF m[haystack + 1] = 0
       THEN {<<"needle", needle, needle + 1>>, <<"haystack", haystack, haystack + 1>>}
       ELSE IF m[needle + 2] = 0
       THEN {<<"needle", needle, needle + 1>>, <<"haystack", haystack, haystack + 1>>,
             <<"needle", needle + 1, needle + 2>>}
       ELSE IF null_mask # {} /\ null_idx < needle_len THEN first
       ELSE IF null_mask # {} \/ r.hit THEN first \cup r.loads
       ELSE loop(ZMM_SZ - offset, first \cup r.loads)

\* _strstr_avx2 with _strstr_avx2_broadcasting, apply_filter_avx2,
\* process_full_search_avx2, cmp_needle_avx2 and the compares it calls
strstr_avx2_loads(m, haystack, needle) ==
    LET needle_len == str_len(m, needle)
        pair(s1, s2, off, k) ==
            {<<"haystack", s1 + off, s1 + off + k>>, <<"needle", s2 + off, s2 + off + k>>}
        eq(s1, s2, off, k) == Load(m, s1 + off, k) = Load(m, s2 + off, k)
        ble(s1, s2, size) ==
            LET c == IF size <= 4 THEN 2 ELSE IF size <= 8 THEN 4
                     ELSE IF size <= 16 THEN 8 ELSE 16
            IN IF size = 1 THEN pair(s1, s2, 0, 1)
               ELSE pair(s1, s2, 0, c) \cup
                    (IF \A j \in 0..(c - 1) : /\ m[s1 + j + 1] = m[s2 + j + 1]
                                             /\ SignedByte(m[s1 + j + 1]) > 0
                     THEN pair(s1, s2, size - c, c) ELSE {})
        \* the loads at the offsets offs, taken in turn until one pair differs
        upto(s1, s2, offs, k) ==
            LET bad == Tzcnt({i \in 1..Len(offs) : ~eq(s1, s2, offs[i], k)}, Len(offs))
            IN UNION {pair(s1, s2, offs[i], k) : i \in {j \in 1..Len(offs) : j <= bad}}
        safe(s1, s2, size) ==
            LET blocks == size \div (4 * YMM_SZ)
                halves == [i \in 1..(2 * blocks) |-> (i - 1) * 2 * YMM_SZ]
                left_out == size - blocks * 4 * YMM_SZ
                chunks == (left_out \div YMM_SZ) + 1
            IN IF size <= YMM_SZ THEN ble(s1, s2, size)
               ELSE IF size <= 2 * YMM_SZ THEN upto(s1, s2, <<0, size - YMM_SZ>>, YMM_SZ)
               ELSE IF size <= 4 * YMM_SZ
               THEN pair(s1, s2, 0, 2 * YMM_SZ) \cup
                    pair(s1, s2, size - 2 * YMM_SZ, 2 * YMM_SZ)
               ELSE upto(s1, s2, halves, 2 * YMM_SZ) \cup
                    (IF left_out = 0 \/ ~eq(s1, s2, 0, blocks * 4 * YMM_SZ) THEN {}
                     ELSE upto(s1, s2, [i \in 1..chunks |-> size - (chunks + 1 - i) * YMM_SZ],
                               YMM_SZ))
        cross(s1, s2, size, safe_bytes) ==
            LET d == Tzcnt({i \in 0..(safe_bytes - 1) : m[s1 + i + 1] # m[s2 + i + 1]},
                           safe_bytes)
            IN pair(s1, s2, 0, Min(d + 1, safe_bytes)) \cup
               (IF d = safe_bytes /\ size - safe_bytes > 0
                THEN safe(s1 + safe_bytes, s2 + safe_bytes, size - safe_bytes) ELSE {})
        cmp(pos) ==
            LET bytes_to_page_end == PAGE_SZ - PageOff(haystack + pos)
            IN IF bytes_to_page_end < needle_len
               THEN cross(haystack + pos, needle, needle_len, bytes_to_page_end)
               ELSE safe(haystack + pos, needle, needle_len)
        proc(match_mask, null_mask, base) ==
            LET cset == {i \in match_mask : null_mask # {} => i <= Tzcnt(null_mask, YMM_SZ)}
                first == Tzcnt({i \in cset :
                                  cmp_needle_avx2(m, haystack, needle, i + base, needle_len)},
                               YMM_SZ)
            IN [hit |-> first < YMM_SZ,
                loads |-> UNION {cmp(base + i) : i \in {j \in cset : j <= first}}]
        filter(offset) ==
            LET bytes_to_page_end == PAGE_SZ - PageOff(haystack + offset)
            IN (IF bytes_to_page_end > 1 + YMM_SZ
                THEN {<<"haystack", haystack + offset + 1, haystack + offset + 1 + YMM_SZ>>}
                ELSE {}) \cup
               (IF needle_len <= 512 /\ bytes_to_page_end > needle_len + YMM_SZ
                THEN {<<"haystack", haystack + offset + needle_len - 1,
                        haystack + offset + needle_len - 1 + YMM_SZ>>}
                ELSE {})
        RECURSIVE loop(_, _)
        loop(offset, loads) ==
            LET y1 == Load(m, haystack + offset, YMM_SZ)
                match_mask == EqByteMask(y1, m[needle + 1])
                null_mask == EqByteMask(y1, 0)
                filtering == match_mask \ null_mask # {}
                filtered == IF filtering
                            THEN apply_filter_avx2(m, haystack, offset, needle_len,
                                     m[needle + 2], m[needle + needle_len], match_mask)
                            ELSE match_mask
                r == proc(filtered, null_mask, offset)
                ld == loads \cup {<<"haystack", haystack + offset, haystack + offset + YMM_SZ>>}
                      \cup (IF filtering THEN filter(offset) ELSE {}) \cup r.loads
            IN IF null_mask # {} \/ r.hit THEN ld ELSE loop(offset + YMM_SZ, ld)
        offset == PageOff(haystack) % YMM_SZ
        near == (PAGE_SZ - YMM_SZ) < PageOff(haystack)
        y1 == IF near THEN Load(m, haystack - offset, YMM_SZ) ELSE Load(m, haystack, YMM_SZ)
        null_mask == IF near THEN movemask_shr(EqByteMask(y1, 0), offset)
                     ELSE EqByteMask(y1, 0)
        match_mask == IF near THEN movemask_shr(EqByteMask(y1, m[needle + 1]), offset)
                      ELSE EqByteMask(y1, m[needle + 1])
        null_idx == Tzcnt(null_mask, YMM_SZ)
        filtering == match_mask # {} /\ (null_mask = {} \/ null_idx > 1)
        filtered == IF filtering
                    THEN apply_filter_avx2(m, haystack, 0, needle_len, m[needle + 2],
                                           m[needle + needle_len], match_mask)
                    ELSE match_mask
        r == proc(filtered, null_mask, 0)
        first == {<<"needle", needle, needle + 1>>, <<"haystack", haystack, haystack + 1>>,
                  <<"needle", needle + 1, needle + 2>>,
                  <<"needle", needle + needle_len - 1, needle + needle_len>>,
                  IF near THEN <<"haystack", haystack - offset, haystack - offset + YMM_SZ>>
                  ELSE <<"haystack", haystack, haystack + YMM_SZ>>}
        scanned == first \cup (IF filtering THEN filter(0) ELSE {}) \cup r.loads
    IN IF m[needle + 1] = 0 THEN {<<"needle", needle, needle + 1>>}
       ELSE IF m[haystack + 1] = 0
       THEN {<<"needle", needle, needle + 1>>, <<"haystack", haystack, haystack + 1>>}
       ELSE IF m[needle + 2] = 0
       THEN {<<"needle", needle, needle + 1>>, <<"haystack", haystack, haystack + 1>>,
             <<"needle", needle + 1, needle + 2>>}
       ELSE IF null_mask # {} /\ null_idx < needle_len THEN first
       ELSE IF null_mask # {} \/ r.hit THEN scanned
       ELSE loop(YMM_SZ - offset, scanned)

(***************************************************************************)
(* Calls of the strstr kernels on a haystack that starts shortly before    *)
(* the end of a page, with needles of up to more than a page.  The image   *)
(* of the haystack is the one of StrstrMem; behind the terminator lies     *)
(* the copy of the needle, if any, and else arbitrary bytes.               *)
(***************************************************************************)
PageNeedleLens == {2, 3, 20, 70, 200, PAGE_SZ + 104}

PageHayLens(nl) ==
    IF nl > PAGE_SZ THEN {9, 10, 11, 50, nl + 100} ELSE {0, 9, 10, 11, 50, 110, 300}

PageNeedleAt(hl, nl) ==
    {q \in {-1, 0, hl - nl, hl + 1} : q >= -1 /\ (hl > nl /\ nl > PAGE_SZ => q = 0)}

PageStrstrCall(f, kind, hl, nl, q, h, na) ==
    [fn |-> f, kind |-> kind, hl |-> hl, nl |-> nl, p |-> q, again |-> FALSE,
     haystack |-> h,
     needle |-> RoundUp(h + Max(hl, q + nl) + 1 + 5 * ZMM_SZ, ZMM_SZ) + na]

PageStrstrMem(c) ==
    LET k == StrstrKind(c.kind)
        len == c.needle + c.nl + 1 + 5 * ZMM_SZ
    IN [i \in 1..len |->
          LET a == i - 1
              x == a - c.haystack
          IN IF a >= c.needle /\ a < c.needle + c.nl THEN NeedleByte(k, c.nl, a - c.needle)
             ELSE IF a = c.needle + c.nl \/ x = c.hl THEN 0
             ELSE IF c.p >= 0 /\ x >= c.p /\ x < c.p + c.nl THEN NeedleByte(k, c.nl, x - c.p)
             ELSE IF x >= 0 /\ x < c.hl THEN k.base + (x % 3)
             ELSE (11 * a + 5) % 256]

InitStrstrPage ==
    /\ \E nl \in PageNeedleLens : \E hl \in PageHayLens(nl) : \E q \in PageNeedleAt(hl, nl) :
       \E f \in {"strstr_avx512", "strstr_avx2"}, kind \in {"lo", "ff"},
          h \in {PageEnd - 10, PageEnd - 40, PageEnd - 100}, na \in {3, 32} :
           call = PageStrstrCall(f, kind, hl, nl, q, h, na)
    /\ mem = PageStrstrMem(call)
    /\ ret = 0
    /\ pc = "ready"

SpecStrstrPage == InitStrstrPage /\ [][NextStrstr]_vars

\* the loads of the call just made
StrstrLoads ==
    IF call.fn = "strstr_avx512" THEN strstr_avx512_loads(mem, call.haystack, call.needle)
    ELSE strstr_avx2_loads(mem, call.haystack, call.needle)

\* C15: every load of _strstr_avx2 / _strstr_avx512 from the haystack touches
\* only pages that hold a byte of haystack[0..strlen(haystack)], and every load
\* from the needle only pages that hold a byte of needle[0..strlen(needle)],
\* for needles of any length, longer than a page included.
C15_StrstrLoadsInPages ==
    (pc = "done" /\ call.fn \in {"strstr_avx512", "strstr_avx2"}) =>
        \A l \in StrstrLoads :
            LET s == IF l[1] = "haystack" THEN call.haystack ELSE call.needle
                len == IF l[1] = "haystack" THEN call.hl ELSE call.nl
            IN /\ PageIdx(l[2]) >= PageIdx(s)
               /\ PageIdx(l[3] - 1) <= PageIdx(s + len)

C15_Witness ==
    /\ pc = "done" /\ call.fn = "strstr_avx512"
    /\ call.kind = "ff" /\ call.nl > PAGE_SZ /\ call.hl = 10 /\ call.p = call.hl + 1
    /\ (PAGE_SZ - ZMM_SZ) < PageOff(call.haystack)
    /\ mem[call.haystack + call.hl + 1] = 0
    /\ ret = call.haystack + call.p
    /\ \E l \in StrstrLoads :
          l[1] = "haystack" /\ PageIdx(l[3] - 1) > PageIdx(call.haystack + call.hl)

(***************************************************************************)
(* The loads of the memcmp kernels: <<buffer, first address, address       *)
(* behind the last>>, the buffer being "mem1" or "mem2"; w is ZMM_SZ for   *)
(* _memcmp_avx512 and YMM_SZ for __memcmp_zen4, whose loop and tail work   *)
(* on ymm vectors.  A masked load reads the bytes its mask selects.        *)
(***************************************************************************)
\* the first vector of either buffer read without a mask
memcmp_loads_unmasked(m, mem1, mem2, size, w) ==
    {<<"mem1", mem1, mem1 + ZMM_SZ>>, <<"mem2", mem2, mem2 + ZMM_SZ>>}

memcmp_loads(m, mem1, mem2, size, w) ==
    LET pair(off, k) == {<<"mem1", mem1 + off, mem1 + off + k>>,
                         <<"mem2", mem2 + off, mem2 + off + k>>}
        \* the k bytes at each of the offsets offs, read in turn up to the first
        \* that differ, and then the two bytes at the first difference
        upto(offs, k) ==
            LET bad == Tzcnt({i \in 1..Len(offs) :
                                Load(m, mem1 + offs[i], k) # Load(m, mem2 + offs[i], k)},
                             Len(offs) + 1)
                index == cmp_vecs(m, mem1, mem2, <<offs[Min(bad, Len(offs))]>>, k)
            IN [diff |-> bad <= Len(offs),
                loads |-> UNION {pair(offs[i], k) : i \in {j \in 1..Len(offs) : j <= bad}}
                          \cup (IF bad <= Len(offs) THEN pair(index, 1) ELSE {})]
        \* the loop reads 2 * ZMM_SZ bytes (avx512: two loads of either buffer,
        \* zen4: two pairs of ymm loads) as long as offset < size - 4 * w
        rounds == (size - 1) \div (4 * w)
        loop == upto([i \in 1..((4 * rounds * w) \div ZMM_SZ) |-> (i - 1) * ZMM_SZ], ZMM_SZ)
        offset == rounds * 4 * w
        rem_data == (size - offset) % 65536
        rem_vecs == ((rem_data \div w) + (IF rem_data % w # 0 THEN 1 ELSE 0)) % 256
    IN IF size <= ZMM_SZ
       THEN IF size % 256 = 0 THEN {} ELSE upto(<<0>>, size % 256).loads
       ELSE IF size <= 2 * ZMM_SZ THEN upto(<<0, size - ZMM_SZ>>, ZMM_SZ).loads
       ELSE IF size <= 4 * ZMM_SZ
       THEN upto(<<0, ZMM_SZ>>, ZMM_SZ).loads \cup pair(ZMM_SZ, ZMM_SZ) \cup
            (IF upto(<<0, ZMM_SZ>>, ZMM_SZ).diff THEN {}
             ELSE upto(<<size - 2 * ZMM_SZ, size - ZMM_SZ>>, ZMM_SZ).loads
                  \cup pair(size - ZMM_SZ, ZMM_SZ))
       ELSE loop.loads \cup
            (IF loop.diff \/ offset = size \/ rem_vecs \notin 1..4 THEN {}
             ELSE upto([i \in 1..rem_vecs |-> size - (rem_vecs + 1 - i) * w], w).loads)

(***************************************************************************)
(* The sized primitives together: the calls of memchr and of memcmp.       *)
(***************************************************************************)
InitSized == InitMemchr \/ InitMemcmp

NextSized == NextMemchr \/ NextMemcmp

SpecSized == InitSized /\ [][NextSized]_vars

\* the loads of the memcmp call just made
MemcmpLoads ==
    memcmp_loads(mem, call.mem1, call.mem2, call.size,
                 IF call.fn = "memcmp_avx512" THEN ZMM_SZ ELSE YMM_SZ)

\* C17: every load of _memchr_avx512 lies in [mem, mem + n) and every load of
\* _memcmp_avx512 / __memcmp_zen4 in [mem1, mem1 + n) or [mem2, mem2 + n); with
\* n = 0 nothing is read, and with n below a vector the masked load reads
\* exactly the n bytes.
C17_SizedLoadsInside ==
    /\ (pc = "done" /\ call.fn = "memchr_avx512") =>
          /\ \A l \in ret.loads : call.buf <= l[1] /\ l[2] <= call.buf + call.size
          /\ call.size = 0 => ret.loads = {}
          /\ call.size \in 1..(ZMM_SZ - 1) =>
                ret.loads = {<<call.buf, call.buf + call.size>>}
    /\ (pc = "done" /\ call.fn \in {"memcmp_avx512", "memcmp_zen4"}) =>
          /\ \A l \in MemcmpLoads :
                LET base == IF l[1] = "mem1" THEN call.mem1 ELSE call.mem2
                IN base <= l[2] /\ l[3] <= base + call.size
          /\ call.size = 0 => MemcmpLoads = {}
          /\ call.size \in 1..(ZMM_SZ - 1) =>
                {<<"mem1", call.mem1, call.mem1 + call.size>>,
                 <<"mem2", call.mem2, call.mem2 + call.size>>} \subseteq MemcmpLoads

C17_Witness ==
    /\ pc = "done" /\ call.fn = "memcmp_zen4"
    /\ call.size > 4 * ZMM_SZ /\ call.size % YMM_SZ = 5 /\ call.diff = -1
    /\ ret = 0
    /\ <<"mem2", call.mem2 + call.size - YMM_SZ, call.mem2 + call.size>> \in MemcmpLoads
    /\ <<"mem1", call.mem1, call.mem1 + ZMM_SZ>> \in MemcmpLoads

(***************************************************************************)
(* The three strcmp kernels on the calls of InitStrcmp: the kernel that    *)
(* the resolver has bound is the one named in the call.                    *)
(***************************************************************************)
InitStrcmpVariants ==
    /\ \E len \in StrLens : \E f \in {"strcmp_avx2", "strcmp_avx512", "strcmp_zen4"},
                               kind \in {"lo", "mixed"}, d \in DiffsOf(len),
                               x \in {"nul", "other"}, pl \in StrPlaces :
           call = StrcmpCall(f, kind, len, d, x, pl, len % 2 = 1, 0)
    /\ mem = StrcmpMem(call)
    /\ ret = 0
    /\ pc = "ready"

Call_strcmp_zen4 ==
    /\ pc = "ready"
    /\ call.fn = "strcmp_zen4"
    /\ ret' = strcmp_zen4(mem, call.str1, call.str2)
    /\ pc' = "done"
    /\ UNCHANGED <<call, mem>>

NextStrcmpVariants == Call_strcmp_avx2 \/ Call_strcmp_avx512 \/ Call_strcmp_zen4

SpecStrcmpVariants == InitStrcmpVariants /\ [][NextStrcmpVariants]_vars

\* C18: on every pair of terminated strings over the bytes 1..255, at every
\* alignment pair, __strcmp_zen4, _strcmp_avx512 and _strcmp_avx2 return the
\* same value: the value the bound kernel has returned is the value of each.
C18_StrcmpVariantsAgree ==
    (pc = "done" /\ call.fn \in {"strcmp_avx2", "strcmp_avx512", "strcmp_zen4"}) =>
        /\ ret = strcmp_zen4(mem, call.str1, call.str2)
        /\ ret = strcmp_avx512(mem, call.str1, call.str2, 0, FALSE)
        /\ ret = strcmp_avx2(mem, call.str1, call.str2, 0, FALSE)

C18_Witness ==
    /\ pc = "done" /\ call.fn = "strcmp_zen4"
    /\ call.kind = "mixed" /\ call.len = 8 /\ call.d = 4
    /\ ret = 0
    /\ strcmp_avx512(mem, call.str1, call.str2, 0, FALSE) # 0
    /\ strcmp_avx512(mem, call.str1, call.str2, 0, FALSE)
          = test_strcmp(mem, call.str1, call.str2)

\* On strings over the bytes 1..127 the three kernels agree.
StrcmpVariantsAgreeLow ==
    (pc = "done" /\ call.kind = "lo") =>
        /\ ret = strcmp_zen4(mem, call.str1, call.str2)
        /\ ret = strcmp_avx512(mem, call.str1, call.str2, 0, FALSE)
        /\ ret = strcmp_avx2(mem, call.str1, call.str2, 0, FALSE)

(***************************************************************************)
(* Binding of the public symbols (libmem_ifunc_dispatcher.c, libmem.c,     *)
(* cpu_features.c).  call is the machine and the build: the registers of   *)
(* CPUID leaf 0, for leaf 7 the masks whose test against ebx, ecx and edx  *)
(* is not zero, which of the two resolver macros was compiled ("cpu_is"    *)
(* with GCC 15.1 and later, "cpuid" else), and the N for which             *)
(* __builtin_cpu_is("znverN") is true (0 for none; it is true on AMD       *)
(* processors only).  mem maps each symbol to the variant it is bound to,  *)
(* ret is zen_info.zen_cpu_features.                                       *)
(***************************************************************************)
\* the DEF_IFUNC_RESOLVER lines, in their order
Symbols ==
    <<"memcpy", "mempcpy", "memmove", "memset", "memcmp", "memchr", "strcpy", "strncpy",
      "strcmp", "strncmp", "strcat", "strncat", "strstr", "strlen", "strchr">>

Leaf0s ==
    {[ebx |-> 1752462657, edx |-> 1769238117, ecx |-> 1145913699],
     [ebx |-> 1970169159, edx |-> 1231384169, ecx |-> 1818588270],
     [ebx |-> 1752462657, edx |-> 1769238117, ecx |-> 1145913698]}

\* is_amd: ebx, edx, ecx of leaf 0 are "Auth", "enti", "cAMD"
is_amd(c) ==
    ~(c.leaf0.ebx # 1752462657 \/ c.leaf0.edx # 1769238117 \/ c.leaf0.ecx # 1145913699)

\* get_cpu_capabilities: the flags that are set to ENABLED
get_cpu_capabilities(c) ==
    [avx512 |-> "AVX512_MASK" \in c.ebx, avx2 |-> "AVX2_MASK" \in c.ebx,
     erms |-> "ERMS_MASK" \in c.ebx, fsrm |-> "FSRM_MASK" \in c.edx,
     movdiri |-> "MOVDIRI_MASK" \in c.ecx, vpclmul |-> "VPCLMULQDQ_MASK" \in c.ecx,
     rdpid |-> "RDPID_MASK" \in c.ecx, rdseed |-> "RDSEED_MASK" \in c.ecx]

\* zen_info as the loader leaves it
NoFeatures ==
    [avx512 |-> FALSE, avx2 |-> FALSE, erms |-> FALSE, fsrm |-> FALSE,
     movdiri |-> FALSE, vpclmul |-> FALSE, rdpid |-> FALSE, rdseed |-> FALSE]

\* AMD_ZEN_CPU_RESOLVER, either macro
AMD_ZEN_CPU_RESOLVER(c) ==
    IF c.build = "cpu_is"
    THEN IF c.znver = 5 THEN "zen5"
         ELSE IF c.znver = 4 THEN "zen4"
         ELSE IF c.znver = 3 THEN "zen3"
         ELSE IF c.znver = 2 THEN "zen2"
         ELSE IF c.znver = 1 THEN "zen1"
         ELSE "system"
    ELSE IF "AVX512_MASK" \in c.ebx
         THEN IF "MOVDIRI_MASK" \in c.ecx THEN "zen5" ELSE "zen4"
         ELSE IF "AVX2_MASK" \in c.ebx /\ "VPCLMULQDQ_MASK" \in c.ecx THEN "zen3"
         ELSE IF "AVX2_MASK" \in c.ebx /\ "RDPID_MASK" \in c.ecx THEN "zen2"
         ELSE IF "AVX2_MASK" \in c.ebx /\ "RDSEED_MASK" \in c.ecx THEN "zen1"
         ELSE "system"

InitDispatch ==
    /\ \E b \in {"cpuid", "cpu_is"}, v \in Leaf0s, z \in 0..5,
          rb \in SUBSET {"AVX512_MASK", "AVX2_MASK", "ERMS_MASK"},
          rc \in SUBSET {"MOVDIRI_MASK", "VPCLMULQDQ_MASK", "RDPID_MASK", "RDSEED_MASK"},
          rd \in SUBSET {"FSRM_MASK"} :
           /\ call = [fn |-> "libmem", build |-> b, leaf0 |-> v, znver |-> z,
                      ebx |-> rb, ecx |-> rc, edx |-> rd]
           /\ z # 0 => (b = "cpu_is" /\ is_amd(call))
    /\ mem = [i \in 1..Len(Symbols) |-> "unbound"]
    /\ ret = NoFeatures
    /\ pc = "ready"

\* libmem_##func##_resolver: the resolvers are run once each; their order does
\* not enter the result and is taken to be that of their definition
DEF_IFUNC_RESOLVER ==
    /\ call.fn = "libmem"
    /\ \E i \in 1..Len(Symbols) :
           /\ mem[i] = "unbound"
           /\ \A j \in 1..(i - 1) : mem[j] # "unbound"
           /\ mem' = [mem EXCEPT ![i] = AMD_ZEN_CPU_RESOLVER(call)]
    /\ UNCHANGED <<call, ret, pc>>

\* the constructor, before or after or between the resolvers
libmem_init ==
    /\ call.fn = "libmem"
    /\ pc = "ready"
    /\ ret' = IF is_amd(call) THEN get_cpu_capabilities(call) ELSE ret
    /\ pc' = "done"
    /\ UNCHANGED <<call, mem>>

NextDispatch == DEF_IFUNC_RESOLVER \/ libmem_init

SpecDispatch == InitDispatch /\ [][NextDispatch]_vars

\* the variant that the feature bits of leaf 7 stand for
ByFeatures(c) ==
    LET f == get_cpu_capabilities(c)
    IN IF f.avx512 /\ f.movdiri THEN "zen5"
       ELSE IF f.avx512 THEN "zen4"
       ELSE IF f.avx2 /\ f.vpclmul THEN "zen3"
       ELSE IF f.avx2 /\ f.rdpid THEN "zen2"
       ELSE IF f.avx2 /\ f.rdseed THEN "zen1"
       ELSE "system"

\* C19: for every combination of the feature bits of CPUID leaf 7 the resolver
\* of each of the 15 symbols returns one variant, AVX512 and MOVDIRI -> zen5,
\* AVX512 -> zen4, AVX2 and VPCLMULQDQ -> zen3, AVX2 and RDPID -> zen2, AVX2 and
\* RDSEED -> zen1, else system, so that all symbols are bound to one generation.
C19_DispatchByFeatures ==
    call.fn = "libmem" =>
        \A i \in 1..Len(Symbols) : mem[i] \in {"unbound", ByFeatures(call)}

C19_Witness ==
    /\ call.fn = "libmem" /\ call.build = "cpu_is" /\ ~is_amd(call)
    /\ "AVX512_MASK" \in call.ebx /\ "MOVDIRI_MASK" \in call.ecx
    /\ ByFeatures(call) = "zen5"
    /\ \A i \in 1..Len(Symbols) : mem[i] = "system"
    /\ pc = "done"

\* The resolver that reads CPUID leaf 7 follows the priority of C19 ...
DispatchByFeaturesCpuid ==
    (call.fn = "libmem" /\ call.build = "cpuid") =>
        \A i \in 1..Len(Symbols) : mem[i] \in {"unbound", ByFeatures(call)}

\* ... and either resolver binds every symbol to one and the same variant.
DispatchOneGeneration ==
    call.fn = "libmem" =>
        \A i, j \in 1..Len(Symbols) :
            \/ mem[i] = "unbound" \/ mem[j] = "unbound"
            \/ (mem[i] = mem[j] /\ mem[i] \in {"zen5", "zen4", "zen3", "zen2", "zen1", "system"})

\* C20: when is_amd() is false, every symbol is bound to the system variant
\* whatever feature bits the processor reports, and the variant bound agrees
\* with zen_info as the constructor has filled it.
C20_NotAmdSystem ==
    (call.fn = "libmem" /\ ~is_amd(call)) =>
        \A i \in 1..Len(Symbols) :
            /\ mem[i] \in {"unbound", "system"}
            /\ (pc = "done" /\ mem[i] \in {"zen5", "zen4"}) => ret.avx512
            /\ (pc = "done" /\ mem[i] \in {"zen3", "zen2", "zen1"}) => ret.avx2

C20_Witness ==
    /\ call.fn = "libmem" /\ call.build = "cpuid" /\ ~is_amd(call)
    /\ "AVX512_MASK" \in call.ebx /\ "MOVDIRI_MASK" \notin call.ecx
    /\ \A i \in 1..Len(Symbols) : mem[i] = "zen4"
    /\ pc = "done" /\ ret = NoFeatures

(***************************************************************************)
(* The bulk loop a copy call selects by the thresholds.                    *)
(***************************************************************************)
\* a selection that compares with <= where the kernel compares with <
memcpy_avx512_bulk_le(dst, src, size, cfg) ==
    IF size <= 16 * ZMM_SZ THEN "none"
    ELSE IF src % ZMM_SZ = dst % ZMM_SZ
    THEN IF size <= cfg.l2_per_core
         THEN "__aligned_load_and_store_4zmm_vec_loop"
         ELSE IF size <= cfg.nt_start_threshold
         THEN "__aligned_load_and_store_4zmm_vec_loop_pftch"
         ELSE "__aligned_load_nt_store_8zmm_vec_loop_pftch"
    ELSE IF size <= cfg.nt_start_threshold
         THEN "__unaligned_load_aligned_store_4zmm_vec_loop"
         ELSE "__unaligned_load_nt_store_4zmm_vec_loop_pftch"

\* lines 123-162: the loop _memcpy_avx512 runs above 16 vectors
memcpy_avx512_bulk(dst, src, size, cfg) ==
    IF size <= 16 * ZMM_SZ THEN "none"
    ELSE IF src % ZMM_SZ = dst % ZMM_SZ
    THEN IF size < cfg.l2_per_core
         THEN "__aligned_load_and_store_4zmm_vec_loop"
         ELSE IF size < cfg.nt_start_threshold
         THEN "__aligned_load_and_store_4zmm_vec_loop_pftch"
         ELSE "__aligned_load_nt_store_8zmm_vec_loop_pftch"
    ELSE IF size < cfg.nt_start_threshold
         THEN "__unaligned_load_aligned_store_4zmm_vec_loop"
         ELSE "__unaligned_load_nt_store_4zmm_vec_loop_pftch"

\* lines 331-388: the loop _memcpy_avx512_erms runs above 8 vectors
memcpy_avx512_erms_bulk(size, cfg) ==
    IF size <= 8 * ZMM_SZ THEN "none"
    ELSE IF size < (cfg.l1d_per_core \div 2) + 2 * 1024
    THEN "__unaligned_load_aligned_store_4zmm_vec_loop_pftch"
    ELSE IF size < cfg.l3_per_ccx
    THEN "__erms_movsb"
    ELSE "__unaligned_load_nt_store_8zmm_vec_loop_pftch"

\* the loops that store with _mm512_stream_si512
NtLoops == {"__aligned_load_nt_store_8zmm_vec_loop_pftch",
            "__unaligned_load_nt_store_4zmm_vec_loop_pftch",
            "__unaligned_load_nt_store_8zmm_vec_loop_pftch"}

\* cpu_info zen_info has static storage: every cache size is 0 until
\* get_cpu_capabilities and compute_sys_thresholds run.  The initial value of
\* __nt_start_threshold is left open.
InitialCfgs ==
    {[l2_per_core |-> 0, nt_start_threshold |-> nt, l1d_per_core |-> 0, l3_per_ccx |-> 0] :
        nt \in {0, 1600}}

\* thresholds as libmem_init may leave them on a matching processor
SysCfgs ==
    {[l2_per_core |-> l2, nt_start_threshold |-> nt, l1d_per_core |-> l1, l3_per_ccx |-> l3] :
        l2 \in {0, 1600, 2560}, nt \in {0, 1600, 2400}, l1 \in {0, 1024}, l3 \in {0, 2600}}

SelectSizes == {8 * ZMM_SZ + 1, 16 * ZMM_SZ, 16 * ZMM_SZ + 1, 1200, 1599, 1600, 1601,
                2047, 2048, 2399, 2400, 2401, 2559, 2560, 2561, 2599, 2600, 3000}

\* the state after libmem_init: the thresholds are computed only if is_amd()
InitSelect ==
    /\ \E f \in {"_memcpy_avx512", "_memcpy_avx512_erms"}, n \in SelectSizes,
          a \in AlignPairs, amd \in BOOLEAN :
          \E c \in (IF amd THEN SysCfgs ELSE InitialCfgs) :
              call = [fn |-> "memcpy", kernel |-> f, is_amd |-> amd, size |-> n,
                      dst |-> MemcpyCall(n, a, c).dst, src |-> MemcpyCall(n, a, c).src,
                      cfg |-> c]
    /\ mem = CopyMem(call)
    /\ ret = [ret |-> -1, bulk |-> "none"]
    /\ pc = "ready"

Call_memcpy_avx512 ==
    /\ pc = "ready"
    /\ call.kernel = "_memcpy_avx512"
    /\ LET r == memcpy_avx512(mem, call.dst, call.src, call.size, FALSE, call.cfg)
       IN /\ mem' = r.mem
          /\ ret' = [ret |-> r.ret,
                     bulk |-> memcpy_avx512_bulk(call.dst, call.src, call.size, call.cfg)]
    /\ pc' = "done"
    /\ UNCHANGED call

Call_memcpy_avx512_erms ==
    /\ pc = "ready"
    /\ call.kernel = "_memcpy_avx512_erms"
    /\ LET r == memcpy_avx512_erms(mem, call.dst, call.src, call.size, FALSE, call.cfg)
       IN /\ mem' = r.mem
          /\ ret' = [ret |-> r.ret, bulk |-> memcpy_avx512_erms_bulk(call.size, call.cfg)]
    /\ pc' = "done"
    /\ UNCHANGED call

NextSelect == Call_memcpy_avx512 \/ Call_memcpy_avx512_erms

SpecSelect == InitSelect /\ [][NextSelect]_vars

\* C21: when no vendor matches, the cache sizes and thresholds keep their
\* initial values and no copy call of any size selects a non-temporal loop.
C21_NoVendorTemporal ==
    (pc = "done" /\ ~call.is_amd) => ret.bulk \notin NtLoops

C21_Witness ==
    /\ pc = "done" /\ ~call.is_amd
    /\ call.kernel = "_memcpy_avx512_erms" /\ call.size = 2 * 1024
    /\ call.cfg.l3_per_ccx = 0 /\ call.cfg.l1d_per_core = 0
    /\ ret.bulk = "__unaligned_load_nt_store_8zmm_vec_loop_pftch"
    /\ Load(mem, call.dst, call.size) = SubSeq(PatSeq, 1, call.size)

\* What holds instead: without a vendor match _memcpy_avx512_erms stays
\* temporal exactly below 2 KB.
NoVendorErmsBelow2K ==
    (pc = "done" /\ ~call.is_amd /\ call.kernel = "_memcpy_avx512_erms") =>
        (ret.bulk \in NtLoops <=> call.size >= 2 * 1024)

\* C28: above 16 vectors _memcpy_avx512 runs exactly one bulk loop, chosen by
\* the thresholds: with equal alignment modulo 64 the temporal 4-vector loop
\* below L2-per-core, the prefetching loop from L2-per-core to below
\* __nt_start_threshold and the non-temporal loop otherwise; with unequal
\* alignment the aligned-store loop below __nt_start_threshold and the
\* non-temporal loop otherwise; non-temporal stores only from
\* __nt_start_threshold on, and in _memcpy_avx512_erms only from L3-per-ccx on.
C28_StrategyPartition ==
    pc = "done" =>
        LET n == call.size
            c == call.cfg
            eq == (call.src % ZMM_SZ = call.dst % ZMM_SZ)
        IN /\ (call.kernel = "_memcpy_avx512" /\ n > 16 * ZMM_SZ) =>
                 /\ (eq /\ n < c.l2_per_core) =>
                        ret.bulk = "__aligned_load_and_store_4zmm_vec_loop"
                 /\ (eq /\ c.l2_per_core <= n /\ n < c.nt_start_threshold) =>
                        ret.bulk = "__aligned_load_and_store_4zmm_vec_loop_pftch"
                 /\ (eq /\ c.l2_per_core <= n /\ c.nt_start_threshold <= n) =>
                        ret.bulk = "__aligned_load_nt_store_8zmm_vec_loop_pftch"
                 /\ (~eq /\ n < c.nt_start_threshold) =>
                        ret.bulk = "__unaligned_load_aligned_store_4zmm_vec_loop"
                 /\ (~eq /\ c.nt_start_threshold <= n) =>
                        ret.bulk = "__unaligned_load_nt_store_4zmm_vec_loop_pftch"
                 /\ ret.bulk \in NtLoops => n >= c.nt_start_threshold
           /\ (call.kernel = "_memcpy_avx512_erms" /\ ret.bulk \in NtLoops) =>
                 n >= c.l3_per_ccx
           /\ Load(mem, call.dst, n) = SubSeq(PatSeq, 1, n)

C28_Witness ==
    /\ pc = "done" /\ call.kernel = "_memcpy_avx512"
    /\ call.src % ZMM_SZ = call.dst % ZMM_SZ
    /\ call.cfg.l2_per_core = 1600 /\ call.cfg.nt_start_threshold = 2400
    /\ call.size = 2400
    /\ ret.bulk = "__aligned_load_nt_store_8zmm_vec_loop_pftch"

(***************************************************************************)
(* The order of the loads and stores of the overlap paths of memmove.      *)
(* An event is one vector load into a register, one vector store from a    *)
(* register, or the tail switch of the erms build.  Registers 0..7 are     *)
(* those of a loop body, 14..18 stand for z4..z8.                          *)
(***************************************************************************)
Ev(op, part, reg, off, grp) ==
    [op |-> op, part |-> part, reg |-> reg, off |-> off, grp |-> grp, n |-> ZMM_SZ,
     w8 |-> FALSE]

\* count bodies of n vectors, the first at offset first, each next one step
\* further: a body loads its n vectors and then stores them
loop_events(first, step, count, n) ==
    [k \in 1..(2 * n * count) |->
        LET i == (k - 1) \div (2 * n)
            j == (k - 1) % (2 * n)
        IN IF j < n
           THEN Ev("load", "loop", j, first + i * step + j * ZMM_SZ, i)
           ELSE Ev("store", "loop", j - n, first + i * step + (j - n) * ZMM_SZ, i)]

\* lines 79-120
memmove_avx512_events(dst, src, size) ==
    IF src < dst
    THEN LET z == <<Ev("load", "boundary", 14, 3 * ZMM_SZ, -1),
                    Ev("load", "boundary", 15, 2 * ZMM_SZ, -1),
                    Ev("load", "boundary", 16, ZMM_SZ, -1),
                    Ev("load", "boundary", 17, 0, -1)>>
             body ==
                 IF (dst % ZMM_SZ = 0) /\ (src % ZMM_SZ = 0)
                 THEN LET sz == size - (size % ZMM_SZ)
                      IN <<Ev("load", "boundary", 18, size - ZMM_SZ, -1)>>
                         \o loop_events(sz - 4 * ZMM_SZ, 0 - 4 * ZMM_SZ,
                                        TripCount(3 * ZMM_SZ, sz, 4 * ZMM_SZ), 4)
                         \o <<Ev("store", "boundary", 18, size - ZMM_SZ, -1)>>
                 ELSE loop_events(size - 4 * ZMM_SZ, 0 - 4 * ZMM_SZ,
                                  TripCount(4 * ZMM_SZ, size, 4 * ZMM_SZ), 4)
         IN z \o body \o [i \in 1..4 |-> [z[i] EXCEPT !.op = "store"]]
    ELSE LET z == [i \in 1..4 |->
                      Ev("load", "boundary", 13 + i, size - (5 - i) * ZMM_SZ, -1)]
         IN z \o loop_events(0, 4 * ZMM_SZ, TripCount(0, size - 4 * ZMM_SZ, 4 * ZMM_SZ), 4)
              \o [i \in 1..4 |-> [z[i] EXCEPT !.op = "store"]]

\* an order that loads the vector kept in z8 only when it is to be stored
memmove_avx512_erms_events_late(dst, src, size) ==
    IF src < dst
    THEN LET count == TripCount(4 * ZMM_SZ, size - ((dst + size) % ZMM_SZ), 4 * ZMM_SZ)
         IN loop_events(size - ((dst + size) % ZMM_SZ) - 4 * ZMM_SZ, 0 - 4 * ZMM_SZ, count, 4)
            \o <<Ev("load", "boundary", 18, size - ZMM_SZ, -1),
                 Ev("store", "boundary", 18, size - ZMM_SZ, -1)>>
    ELSE loop_events(ZMM_SZ - (dst % ZMM_SZ), 4 * ZMM_SZ,
                     TripCount(ZMM_SZ - (dst % ZMM_SZ), size - 4 * ZMM_SZ, 4 * ZMM_SZ), 4)
         \o <<Ev("load", "boundary", 18, 0, -1), Ev("store", "boundary", 18, 0, -1)>>

\* lines 206-328
memmove_avx512_erms_events(dst, src, size) ==
    IF src < dst
    THEN LET off == (dst + size) % ZMM_SZ
             count == TripCount(4 * ZMM_SZ, size - off, 4 * ZMM_SZ)
             left == size - off - count * 4 * ZMM_SZ
         IN <<Ev("load", "boundary", 18, size - ZMM_SZ, -1)>>
            \o loop_events(size - off - 4 * ZMM_SZ, 0 - 4 * ZMM_SZ, count, 4)
            \o <<[Ev("tail", "tail", -1, 0, -1) EXCEPT !.n = left]>>
            \o <<Ev("store", "boundary", 18, size - ZMM_SZ, -1)>>
    ELSE LET offset == ZMM_SZ - (dst % ZMM_SZ)
             n == IF size <= 26 * 1024 THEN 4 ELSE 8
             count == TripCount(offset, size - n * ZMM_SZ, n * ZMM_SZ)
             reached == offset + count * n * ZMM_SZ
         IN <<Ev("load", "boundary", 18, 0, -1)>>
            \o loop_events(offset, n * ZMM_SZ, count, n)
            \o <<[Ev("tail", "tail", -1, reached, -1)
                     EXCEPT !.n = (size - reached) % 65536, !.w8 = (n = 8)]>>
            \o <<Ev("store", "boundary", 18, 0, -1)>>

OrderSizes == {8 * ZMM_SZ + 1, 520, 9 * ZMM_SZ, 600, 10 * ZMM_SZ, 700, 12 * ZMM_SZ,
               1000, 16 * ZMM_SZ, 1100, 1500}

\* <<source alignment, dst - src>> of blocks that overlap or touch
OrderCases(n) == {<<0, -64>>, <<5, -7>>, <<5, 0 - n>>, <<0, 0>>, <<3, 0>>,
                  <<5, 7>>, <<0, 64>>, <<0, n>>, <<5, 250>>}

InitMoveOrder ==
    /\ \/ \E n \in OrderSizes, f \in {"memmove", "memmove_erms"} :
              \E a \in OrderCases(n) : call = MemmoveCall(f, n, a, DefaultCfg)
       \/ \E a \in {<<5, -7>>, <<0, -64>>} :
              call = MemmoveCall("memmove_erms", HugeSize, a, DefaultCfg)
    /\ mem = CopyMem(call)
    /\ ret = [r \in (0..7) \cup (14..18) |-> <<>>]
    /\ pc = 0

\* the events of the call, in program order
MoveEvents ==
    IF call.fn = "memmove"
    THEN memmove_avx512_events(call.dst, call.src, call.size)
    ELSE memmove_avx512_erms_events(call.dst, call.src, call.size)

\* the next event of the call is executed
Step_memmove ==
    /\ pc < Len(MoveEvents)
    /\ LET e == MoveEvents[pc + 1]
       IN /\ mem' = IF e.op = "store" THEN Store(mem, call.dst + e.off, ret[e.reg])
                    ELSE IF e.op = "tail"
                    THEN load_store_tail_erms(mem, call.dst + e.off, call.src + e.off,
                                              e.n, e.w8)
                    ELSE mem
          /\ ret' = IF e.op = "load"
                    THEN [ret EXCEPT ![e.reg] = Load(mem, call.src + e.off, ZMM_SZ)]
                    ELSE ret
    /\ pc' = pc + 1
    /\ UNCHANGED call

NextMoveOrder == Step_memmove

SpecMoveOrder == InitMoveOrder /\ [][NextMoveOrder]_vars

\* C25: in the overlap path of memmove the bulk loop runs backward exactly when
\* src < dst; every boundary vector is loaded (and still holds the bytes the
\* source had at the call) before the first store of the loop and is stored
\* only after the loop has finished; within the loop a group of vectors is
\* loaded before any vector of the group is stored.  The memory left is that
\* of a copy through a scratch buffer.
C25_MoveOrder ==
    LET T == MoveEvents
        e == T[pc]
        All == 1..Len(T)
    IN /\ pc >= 1 =>
          /\ (e.part = "loop" /\ e.op = "store") =>
                /\ \A b \in All : (T[b].part = "boundary" /\ T[b].op = "load") =>
                       /\ b < pc
                       /\ ret[T[b].reg] = Load(CopyMem(call), call.src + T[b].off, ZMM_SZ)
                /\ \A l \in All : (T[l].part = "loop" /\ T[l].op = "load"
                                    /\ T[l].grp = e.grp) => l < pc
          /\ (e.part = "boundary" /\ e.op = "store") =>
                \A l \in All : T[l].part = "loop" => l < pc
          /\ (e.part = "loop" /\ e.grp >= 1) =>
                \A l \in All : (T[l].part = "loop" /\ T[l].grp = e.grp - 1
                                /\ T[l].reg = e.reg) =>
                    (e.off < T[l].off <=> call.src < call.dst)
       /\ pc = Len(T) => mem = CopyExpected(call)

C25_Witness ==
    /\ pc = Len(MoveEvents) /\ call.fn = "memmove_erms"
    /\ call.size = 1100 /\ call.dst = call.src + 7
    /\ \E k \in 1..pc : MoveEvents[k].part = "loop" /\ MoveEvents[k].grp = 2
    /\ Load(mem, call.dst, call.size) = Load(CopyMem(call), call.src, call.size)
    /\ ret[18] = Load(CopyMem(call), call.src + call.size - ZMM_SZ, ZMM_SZ)

(***************************************************************************)
(* strstr("abcabcabX", "abcabX"): the needle shares its first five bytes   *)
(* with the front of the haystack and occurs at index 3.                   *)
(***************************************************************************)
PartialHay == <<97, 98, 99, 97, 98, 99, 97, 98, 88, 0>>
PartialNeedle == <<97, 98, 99, 97, 98, 88, 0>>

\* the haystack d bytes before the end of the first page (from d = 9 down it
\* runs across it) or d bytes behind it, the needle below or above it
InitStrstrPartial ==
    /\ \E f \in {"strstr_avx512", "strstr_avx2"}, d \in (0 - 70)..130, na \in {0, 19, 60},
          low \in {"hay", "needle"} :
          call = [fn |-> f,
                  haystack |-> IF low = "hay" THEN PageEnd - d ELSE PageEnd + 2 * ZMM_SZ - d,
                  needle |-> IF low = "hay" THEN PageEnd + 4 * ZMM_SZ + na ELSE ZMM_SZ + na]
    /\ mem = IF call.haystack < call.needle
             THEN StrMem(call.haystack, PartialHay, call.needle, PartialNeedle)
             ELSE StrMem(call.needle, PartialNeedle, call.haystack, PartialHay)
    /\ ret = 0
    /\ pc = "ready"

SpecStrstrPartial == InitStrstrPartial /\ [][NextStrstr]_vars

\* C24 as stated: strstr("abcabcabX", "abcabX") returns NULL, as the scalar
\* reference test_strstr does.
C24_PartialNull ==
    pc = "done" =>
        /\ ret = -1
        /\ ret = test_strstr(mem, call.haystack, call.needle)

\* C24 as amended: strstr("abcabcabX", "abcabX") returns haystack + 3, the
\* place of the occurrence behind the partial match at the front, as the
\* scalar reference test_strstr does.
C24_PartialFound ==
    pc = "done" =>
        /\ ret = call.haystack + 3
        /\ ret = test_strstr(mem, call.haystack, call.needle)
        /\ Load(mem, ret, 6) = SubSeq(PartialNeedle, 1, 6)

C24_Witness ==
    /\ pc = "done" /\ call.fn = "strstr_avx2"
    /\ PageOff(call.haystack) = PAGE_SZ - 5
    /\ ret = call.haystack + 3
    /\ Load(mem, call.haystack, 10) = PartialHay
    /\ Load(mem, call.needle, 7) = PartialNeedle

\* C27: a non-null result p of _strstr_avx512 or _strstr_avx2 for a non-empty
\* needle of length k lies in the haystack: haystack <= p and
\* p + k <= haystack + strlen(haystack), whatever the first byte of the needle
\* (0xff among them) and whatever follows the terminator.
C27_StrstrInsideHaystack ==
    (pc = "done" /\ call.fn \in {"strstr_avx512", "strstr_avx2"}
       /\ call.nl >= 1 /\ ret # -1) =>
        /\ call.haystack <= ret
        /\ ret + call.nl <= call.haystack + str_len(mem, call.haystack)

C27_Witness ==
    /\ pc = "done" /\ call.fn = "strstr_avx512"
    /\ call.kind = "ff" /\ call.nl = 2
    /\ (PAGE_SZ - ZMM_SZ) < PageOff(call.haystack)
    /\ str_len(mem, call.haystack) = call.hl
    /\ ret > call.haystack + call.hl
    /\ Load(mem, ret, call.nl) = Load(mem, call.needle, call.nl)

\* _strstr_avx512 keeps inside the haystack for needles that do not start with 0xff
StrstrAvx512InsideHaystack_NoFF ==
    (pc = "done" /\ call.fn = "strstr_avx512" /\ call.kind # "ff"
       /\ call.nl >= 1 /\ ret # -1) =>
        /\ call.haystack <= ret
        /\ ret + call.nl <= call.haystack + str_len(mem, call.haystack)

\* the block offsets at which the kernels of _strstr_avx2 see the candidate
\* position p: the first block starts at the haystack, the blocks of the loop
\* are aligned
FilterOffsets(haystack, p) ==
    LET first == YMM_SZ - (PageOff(haystack) % YMM_SZ)
    IN {o \in {0} \cup (Max(0, p - YMM_SZ + 1)..p) :
          /\ p - o < YMM_SZ
          /\ o = 0 \/ (o >= first /\ (o - first) % YMM_SZ = 0)}

\* a call on a haystack that holds the whole needle at index p, before the
\* terminator
NeedleOccurs ==
    /\ pc = "done" /\ call.fn \in {"strstr_avx512", "strstr_avx2"}
    /\ call.nl >= 2 /\ call.p >= 0 /\ call.p + call.nl <= call.hl
    /\ Load(mem, call.haystack + call.p, call.nl) = Load(mem, call.needle, call.nl)

\* the filters of _strstr_avx2 keep a position at which the needle occurs
FilterAvx2Sound ==
    NeedleOccurs =>
        \A o \in FilterOffsets(call.haystack, call.p) :
            (call.p - o) \in apply_filter_avx2(mem, call.haystack, o, call.nl,
                                               mem[call.needle + 2],
                                               mem[call.needle + call.nl], {call.p - o})

\* C26: the prefilters of strstr are sound: a candidate position at which the
\* whole needle occurs is discarded neither by the second-byte and last-byte
\* filters of apply_filter_avx2 nor by the probe of the last byte in
\* _strstr_avx512, whatever bytes 1..255 the needle holds.
C26_PrefiltersSound ==
    NeedleOccurs =>
        /\ \A o \in FilterOffsets(call.haystack, call.p) :
              (call.p - o) \in apply_filter_avx2(mem, call.haystack, o, call.nl,
                                                 mem[call.needle + 2],
                                                 mem[call.needle + call.nl], {call.p - o})
        /\ SamePage(call.haystack + call.p, call.haystack + call.p + call.nl - 1)
              => last_char_probe(mem, call.haystack, call.needle, call.nl, call.p)

C26_Witness ==
    /\ pc = "done" /\ call.fn = "strstr_avx512" /\ NeedleOccurs
    /\ call.kind = "hi" /\ call.nl = 3 /\ call.p = 0
    /\ mem[call.needle + call.nl] >= 128
    /\ SamePage(call.haystack, call.haystack + call.nl - 1)
    /\ ~last_char_probe(mem, call.haystack, call.needle, call.nl, call.p)
    /\ ret = -1
    /\ test_strstr(mem, call.haystack, call.needle) = call.haystack

(***************************************************************************)
(* The near-page test of the first block of the strcmp kernels             *)
(* (strcmp_avx512.c:55-59, strcmp_zen4.c:44-48, strcmp_avx2.c:152-156,     *)
(* where 2 * YMM_SZ stands for ZMM_SZ).  Pointers are addresses here.      *)
(***************************************************************************)
\* a test that looks at str1 alone
str_near_page_first(str1, str2) == (PAGE_SZ - ZMM_SZ) < str1 % PAGE_SZ

\* (PAGE_SZ - ZMM_SZ) < ((PAGE_SZ - 1) & ((uintptr_t)str1 | (uintptr_t)str2))
str_near_page(str1, str2) ==
    (PAGE_SZ - ZMM_SZ) < BitOr(str1, str2) % PAGE_SZ

\* offset = (offset1 >= offset2) ? offset1 : offset2
str_first_offset(str1, str2) ==
    LET offset1 == str1 % ZMM_SZ
        offset2 == str2 % ZMM_SZ
    IN IF offset1 >= offset2 THEN offset1 ELSE offset2

\* page offsets at both ends of a page, around the vector sizes, and in between
NearOffsets == (0..66) \cup ((PAGE_SZ - 66)..(PAGE_SZ - 1))
               \cup {1000, 2048, 2049, 4000}

InitNearPage ==
    /\ \E o1 \in NearOffsets, o2 \in NearOffsets, p \in {0, 1, 5} :
          call = [fn |-> "first_block", str1 |-> 3 * PAGE_SZ + o1,
                  str2 |-> (4 + p) * PAGE_SZ + o2]
    /\ mem = <<>>
    /\ ret = [near |-> FALSE, bytes |-> 0]
    /\ pc = "ready"

\* the first block: the branch taken and the bytes of each string it compares
Call_first_block ==
    /\ pc = "ready"
    /\ call.fn = "first_block"
    /\ ret' = IF str_near_page(call.str1, call.str2)
              THEN [near |-> TRUE, bytes |-> ZMM_SZ - str_first_offset(call.str1, call.str2)]
              ELSE [near |-> FALSE, bytes |-> ZMM_SZ]
    /\ pc' = "done"
    /\ UNCHANGED <<call, mem>>

NextNearPage == Call_first_block

SpecNearPage == InitNearPage /\ [][NextNearPage]_vars

\* C29: the fast path is taken exactly when
\* ((PAGE_SZ - 1) & (str1 | str2)) <= PAGE_SZ - 64, and then each of str1 and
\* str2 has at least 64 bytes to the end of its page, so that the 64-byte
\* loads of the first block stay in it; in the near-page branch the bytes
\* compared, 64 minus the larger offset modulo 64, do not exceed the bytes
\* either string has left before its next 64-byte boundary.
C29_NearPageConservative ==
    pc = "done" =>
        LET fast == BitOr(call.str1, call.str2) % PAGE_SZ <= PAGE_SZ - ZMM_SZ
        IN /\ fast <=> ~ret.near
           /\ \A s \in {call.str1, call.str2} :
                 /\ fast => /\ PAGE_SZ - (s % PAGE_SZ) >= ZMM_SZ
                            /\ (s + ret.bytes - 1) \div PAGE_SZ = s \div PAGE_SZ
                 /\ ~fast => /\ ret.bytes >= 1
                             /\ ret.bytes <= ZMM_SZ - (s % ZMM_SZ)
                             /\ (s + ret.bytes - 1) \div ZMM_SZ = s \div ZMM_SZ

C29_Witness ==
    /\ pc = "done" /\ ret.near
    /\ call.str1 % PAGE_SZ = 40 /\ call.str2 % PAGE_SZ = PAGE_SZ - 3
    /\ ret.bytes = 3

\* ---------------------------------------------------------------------------
\* The process: resolvers, the constructor and calls through bound symbols
\* ---------------------------------------------------------------------------

\* the number of public symbols the process references
NSyms == 3

\* the process after loading: no symbol relocated, zen_info zero, constructor
\* not yet run, no call made
InitProcess ==
    /\ \E b \in {"cpuid", "cpu_is"}, v \in Leaf0s, z \in 0..5,
          rb \in SUBSET {"AVX512_MASK", "AVX2_MASK"},
          rc \in SUBSET {"MOVDIRI_MASK", "VPCLMULQDQ_MASK"} :
           /\ call = [fn |-> "libmem", build |-> b, leaf0 |-> v, znver |-> z,
                      ebx |-> rb, ecx |-> rc, edx |-> {},
                      last |-> [sym |-> 0, variant |-> "none", init |-> FALSE,
                                sys |-> FALSE]]
           /\ z # 0 => (b = "cpu_is" /\ is_amd(call))
    /\ mem = [i \in 1..NSyms |-> "unbound"]
    /\ ret = NoFeatures
    /\ pc = "ready"

\* a resolver that chooses by the decoded features of zen_info
libmem_func_resolver_zen_info ==
    /\ call.fn = "libmem"
    /\ \E i \in 1..NSyms :
           mem' = [mem EXCEPT ![i] = IF ret.avx512 THEN "zen4"
                                     ELSE IF ret.avx2 THEN "zen3" ELSE "system"]
    /\ UNCHANGED <<call, ret, pc>>

\* libmem_##func##_resolver, run by the loader for a relocation against func:
\* the first one binds the symbol, one of another object runs the resolver again
libmem_func_resolver ==
    /\ call.fn = "libmem"
    /\ \E i \in 1..NSyms :
           mem' = [mem EXCEPT ![i] = AMD_ZEN_CPU_RESOLVER(call)]
    /\ UNCHANGED <<call, ret, pc>>

\* a call through the bound symbol func: it enters the variant of the binding
\* and, in _memcpy_avx512, reads zen_info and __nt_start_threshold as they are;
\* neither the symbol nor the kernel looks whether libmem_init has run
Call_func ==
    /\ call.fn = "libmem"
    /\ \E i \in 1..NSyms :
           /\ mem[i] # "unbound"
           /\ call' = [call EXCEPT !.last =
                          [sym |-> i, variant |-> mem[i], init |-> pc = "done",
                           sys |-> pc = "done" /\ is_amd(call)]]
    /\ UNCHANGED <<mem, ret, pc>>

NextProcess == libmem_func_resolver \/ libmem_init \/ Call_func

SpecProcess == InitProcess /\ [][NextProcess]_vars

\* C23: once the resolver of a public symbol has returned, the binding of the
\* name to a kernel variant is the same in every later state: no call, no step
\* of the initialisation and no resolution, of this or of another symbol,
\* changes it, and every call goes to the bound variant.
C23_BindingImmutable ==
    [][/\ \A i \in 1..NSyms : mem[i] # "unbound" => mem'[i] = mem[i]
       /\ call'.last.sym # 0 => call'.last.variant = mem'[call'.last.sym]]_vars

C23_Witness ==
    /\ call.fn = "libmem" /\ pc = "done"
    /\ ret.avx512
    /\ call.last.sym = 1 /\ call.last.init /\ call.last.variant = "zen4"
    /\ \A i \in 1..NSyms : mem[i] = "zen4"

\* C22: the initialisation of libmem_init has completed before any call reads
\* zen_info or a threshold: a call through a bound symbol that enters the
\* AVX-512 kernels is made after the constructor and finds the thresholds
\* computed.
C22_InitBeforeUse ==
    (call.fn = "libmem" /\ call.last.sym # 0 /\ call.last.variant = "zen4")
        => (call.last.init /\ call.last.sys)

\* a call made after the constructor on a processor that is not AMD's: the
\* symbol is bound to zen4 and compute_sys_thresholds has not run
C22_Witness ==
    /\ call.fn = "libmem" /\ pc = "done"
    /\ ~is_amd(call)
    /\ call.last.sym = 1 /\ call.last.variant = "zen4"
    /\ call.last.init /\ ~call.last.sys

\* on an AMD processor a call made after the constructor finds the thresholds
\* computed
InitBeforeUse_AmdAfterInit ==
    (call.fn = "libmem" /\ call.last.sym # 0 /\ call.last.init /\ is_amd(call))
        => call.last.sys

\* ---------------------------------------------------------------------------
\* The loops of _strcmp_avx512 / _strncmp_avx512, one iteration a step
\* ---------------------------------------------------------------------------

\* pairs of strings: same alignment; different alignment; different alignment
\* with the string that is not aligned less than one vector before the end of
\* its page when the loops begin (overlapping strings)
LoopPlaces ==
    {<<PageEnd + 5, PageEnd + PAGE_SZ + 3 * ZMM_SZ + 5>>,
     <<PageEnd + 5, PageEnd + PAGE_SZ + 37>>,
     <<PageEnd + PAGE_SZ + 37, PageEnd + 5>>,
     <<PageEnd + PAGE_SZ - 96, PageEnd + PAGE_SZ - 59>>,
     <<PageEnd + PAGE_SZ - 59, PageEnd + PAGE_SZ - 96>>}

LoopLens == {10, 100, 200, 300, 700, 3900, 4200}

LoopSizes == {0, 1, 27, 28, 70, 100, 255, 256, 257, 300, 600, 4300}

\* the bytes of both strings are 97 up to the terminators; len = -1: none
LoopMem(c) ==
    <<>> \o [i \in 1..Len(Junk) |->
               IF c.len >= 0 /\ i - 1 \in {c.str1 + c.len, c.str2 + c.len} THEN 0 ELSE 97]

\* the state of a call: offset and vecs_in_page, the offset at which the round
\* of the top level loop began, the rounds completed, the number of bytes of
\* the strings that have been looked at, the result
LoopState(offset, vip, al, un, outer, rounds, top, res) ==
    [offset |-> offset, vip |-> vip, al |-> al, un |-> un, outer |-> outer,
     rounds |-> rounds, top |-> top, ret |-> res]

InitLoops ==
    /\ \E p \in LoopPlaces, N \in BOOLEAN :
           \E l \in IF N THEN {-1, 100, 4200} ELSE LoopLens,
              n \in IF N THEN LoopSizes ELSE {0} :
               call = [fn |-> "strcmp_loops", N |-> N, size |-> n, len |-> l,
                       str1 |-> p[1], str2 |-> p[2]]
    /\ mem = LoopMem(call)
    /\ ret = LoopState(0, 0, call.str1, call.str2, 0, 0, 0, 0)
    /\ pc = "first"

\* the number of bytes looked at when scan_vecs from offset on returns r
scan_top(r, offset, w) ==
    IF r.hit THEN offset + (((r.at - offset) \div w) + 1) * w ELSE r.at

\* return, from any place of the kernel
loop_return(res, top) ==
    /\ ret' = [ret EXCEPT !.ret = res, !.top = Max(ret.top, top)]
    /\ pc' = "done"

\* lines 42-112 and 177-196: the first vector, offset, the choice of the loops
Step_first ==
    /\ call.fn = "strcmp_loops" /\ pc = "first"
    /\ LET N == call.N
           size == call.size
           str1 == call.str1
           str2 == call.str2
           offset1 == PageOff(str1) % ZMM_SZ
           offset2 == PageOff(str2) % ZMM_SZ
           offmax == IF offset1 >= offset2 THEN offset1 ELSE offset2
           near == str_near_page(PageOff(str1), PageOff(str2))
           k == IF near THEN ZMM_SZ - offmax ELSE ZMM_SZ
           stop == IF near THEN strcmp_avx512_masked(mem, str1, str2, k)
                   ELSE stop_avx512(Load(mem, str1, ZMM_SZ), Load(mem, str2, ZMM_SZ))
           offset == ZMM_SZ - offmax
           str1_aligned == (PageOff(str1 + offset) % ZMM_SZ) = 0
           al == IF str1_aligned THEN str1 ELSE str2
           un == IF str1_aligned THEN str2 ELSE str1
           vecs_in_page == (PAGE_SZ - PageOff(un + offset)) \div ZMM_SZ
       IN IF N /\ size = 0 THEN loop_return(0, 0)
          ELSE IF stop # {}
          THEN loop_return(str_result(mem, str1, str2, Tzcnt(stop, ZMM_SZ), size, N), k)
          ELSE IF N /\ size <= k THEN loop_return(0, k)
          ELSE /\ ret' = LoopState(offset, vecs_in_page, al, un, offset, 0, k, 0)
               /\ pc' = IF offset1 = offset2 THEN "aligned4" ELSE "four"
    /\ UNCHANGED <<call, mem>>

\* lines 115-176: one round of the loop over four aligned vectors, or of the
\* loop over one
Step_aligned ==
    /\ call.fn = "strcmp_loops" /\ pc \in {"aligned4", "aligned1"}
    /\ LET N == call.N
           size == call.size
           offset == ret.offset
           four == pc = "aligned4"
           r == scan_vecs(mem, call.str1, call.str2, offset, IF four THEN 4 ELSE 1, ZMM_SZ)
           top == scan_top(r, offset, ZMM_SZ)
       IN IF four /\ ~((~N) \/ offset < USub(size, 4 * ZMM_SZ))
          THEN pc' = "aligned1" /\ ret' = ret
          ELSE IF r.hit
          THEN loop_return(str_result(mem, call.str1, call.str2, r.at, size, N), top)
          ELSE IF N /\ size <= r.at THEN loop_return(0, top)
          ELSE /\ ret' = [ret EXCEPT !.offset = r.at, !.top = Max(ret.top, top)]
               /\ pc' = pc
    /\ UNCHANGED <<call, mem>>

\* lines 198-242: one round of while (vecs_in_page >= 4 ...), or its end
Step_four ==
    /\ call.fn = "strcmp_loops" /\ pc = "four"
    /\ LET N == call.N
           size == call.size
           offset == ret.offset
           r == scan_vecs(mem, ret.al, ret.un, offset, 4, ZMM_SZ)
           top == scan_top(r, offset, ZMM_SZ)
       IN IF ret.vip >= 4 /\ (N => offset < USub(size, 4 * ZMM_SZ))
          THEN IF r.hit
               THEN loop_return(str_result(mem, call.str1, call.str2, r.at, size, N), top)
               ELSE /\ ret' = [ret EXCEPT !.offset = r.at, !.vip = ret.vip - 4,
                                          !.top = Max(ret.top, top)]
                    /\ pc' = pc
          ELSE IF N /\ size <= offset THEN loop_return(0, 0)
          ELSE pc' = "one" /\ ret' = ret
    /\ UNCHANGED <<call, mem>>

\* lines 243-258: one round of while (vecs_in_page--), or its end, which
\* leaves the uint16_t at 65535
Step_one ==
    /\ call.fn = "strcmp_loops" /\ pc = "one"
    /\ LET N == call.N
           size == call.size
           offset == ret.offset
           r == scan_vecs(mem, ret.al, ret.un, offset, 1, ZMM_SZ)
           top == scan_top(r, offset, ZMM_SZ)
       IN IF ret.vip # 0
          THEN IF r.hit
               THEN loop_return(str_result(mem, call.str1, call.str2, r.at, size, N), top)
               ELSE IF N /\ size <= r.at THEN loop_return(0, top)
               ELSE /\ ret' = [ret EXCEPT !.offset = r.at, !.vip = ret.vip - 1,
                                          !.top = Max(ret.top, top)]
                    /\ pc' = pc
          ELSE /\ ret' = [ret EXCEPT !.vip = (ret.vip - 1) % 65536]
               /\ pc' = "cross"
    /\ UNCHANGED <<call, mem>>

\* the end of a round with vecs_in_page kept in a wider integer
Step_cross_wide ==
    /\ call.fn = "strcmp_loops" /\ pc = "cross"
    /\ LET N == call.N
           size == call.size
           offset == ret.offset
           k == ZMM_SZ - (PageOff(ret.un + offset) % ZMM_SZ)
           stop == strcmp_avx512_masked(mem, ret.al + offset, ret.un + offset, k)
       IN IF stop # {}
          THEN loop_return(str_result(mem, call.str1, call.str2,
                                      Tzcnt(stop, ZMM_SZ) + offset, size, N), offset + k)
          ELSE IF N /\ size <= offset + k THEN loop_return(0, offset + k)
          ELSE /\ ret' = [ret EXCEPT !.vip = ret.vip + (PAGE_SZ \div ZMM_SZ),
                                     !.outer = offset,
                                     !.rounds = Min(ret.rounds + 1, 2),
                                     !.top = Max(ret.top, offset + k)]
               /\ pc' = "four"
    /\ UNCHANGED <<call, mem>>

\* lines 259-277: the bytes up to the end of the page of the string that is
\* not aligned, compared under a mask; offset stays, vecs_in_page += PAGE_SZ /
\* ZMM_SZ, and the top level loop begins its next round
Step_cross ==
    /\ call.fn = "strcmp_loops" /\ pc = "cross"
    /\ LET N == call.N
           size == call.size
           offset == ret.offset
           k == ZMM_SZ - (PageOff(ret.un + offset) % ZMM_SZ)
           stop == strcmp_avx512_masked(mem, ret.al + offset, ret.un + offset, k)
       IN IF stop # {}
          THEN loop_return(str_result(mem, call.str1, call.str2,
                                      Tzcnt(stop, ZMM_SZ) + offset, size, N), offset + k)
          ELSE IF N /\ size <= offset + k THEN loop_return(0, offset + k)
          ELSE /\ ret' = [ret EXCEPT !.vip = (ret.vip + (PAGE_SZ \div ZMM_SZ)) % 65536,
                                     !.outer = offset,
                                     !.rounds = Min(ret.rounds + 1, 2),
                                     !.top = Max(ret.top, offset + k)]
               /\ pc' = "four"
    /\ UNCHANGED <<call, mem>>

NextLoops == Step_first \/ Step_aligned \/ Step_four \/ Step_one \/ Step_cross

\* a call that has begun is run on until it returns
SpecLoops == InitLoops /\ [][NextLoops]_vars /\ WF_vars(NextLoops)

\* the stepwise kernel returns what the kernel returns
LoopsAgree ==
    (call.fn = "strcmp_loops" /\ pc = "done") =>
        ret.ret = strcmp_avx512(mem, call.str1, call.str2, call.size, call.N)

\* every call returns
CallsReturn == <>(pc = "done")

\* _strncmp_avx512 looks at less than n bytes and one vector, or, for n of
\* less than four vectors, at less than n bytes and a page
BytesBound ==
    (call.fn = "strcmp_loops" /\ call.N) =>
        ret.top < call.size + (IF call.size >= 4 * ZMM_SZ THEN ZMM_SZ ELSE PAGE_SZ)

\* no load of _strncpy_avx2 / _strncpy_avx512 ends more than a vector behind
\* src + n
StrncpyBytesBound ==
    (pc = "done" /\ call.fn \in {"strncpy_avx2", "strncpy_avx512"}) =>
        \A l \in CpyLoads :
            l[2] <= call.src + call.size
                    + (IF call.fn = "strncpy_avx2" THEN YMM_SZ ELSE ZMM_SZ)

\* every round of an inner loop advances offset
InnerRoundsAdvance ==
    [][(call.fn = "strcmp_loops" /\ pc' = pc
        /\ pc \in {"aligned4", "aligned1", "four", "one"})
          => ret'.offset > ret.offset]_vars

\* every round of the top level loop advances offset
OuterRoundsAdvance ==
    [][(call.fn = "strcmp_loops" /\ pc = "cross" /\ pc' = "four")
          => ret.offset > ret.outer]_vars

\* a round of the top level loop leaves 63 vectors for the next one, and every
\* round after the first has advanced offset by 63 vectors
OuterRoundsAdvanceLater ==
    [][(call.fn = "strcmp_loops" /\ pc = "cross" /\ pc' = "four")
          => /\ ret'.vip = (PAGE_SZ \div ZMM_SZ) - 1
             /\ ret.rounds > 0 => ret.offset = ret.outer + ret'.vip * ZMM_SZ]_vars

====
